---- MODULE Spec2Model ----
(***************************************************************************)
(* A model of the ConfigMapSecret controller (package controllers): the    *)
(* reference index, the variable resolver, the rendering of the target     *)
(* Secret, the owned-secret lifecycle, the status conditions and the event *)
(* handlers, together with the cluster objects they read and write.        *)
(*                                                                         *)
(* Strings that the program scans, concatenates or expands (template       *)
(* values, variable names, data keys and values) are sequences of          *)
(* one-character strings.  Object names, which are only compared, are      *)
(* plain strings.  A Go map is a function with a finite domain.            *)
(***************************************************************************)
EXTENDS Integers, Sequences, FiniteSets, Bags, TLC

\* ------------------------------------------------------------------------
\* Generic helpers for Go maps and slices
\* ------------------------------------------------------------------------

EmptyMap == <<>>

MapPut(m, k, v) == [x \in DOMAIN m \cup {k} |-> IF x = k THEN v ELSE m[x]]

\* for k, v := range src { dst[k] = v }
MapMerge(dst, src) ==
  [x \in DOMAIN dst \cup DOMAIN src |-> IF x \in DOMAIN src THEN src[x] ELSE dst[x]]

MapDel(m, k) == [x \in DOMAIN m \ {k} |-> m[x]]

Range(s) == {s[i] : i \in DOMAIN s}

MinOf(S) == CHOOSE x \in S : \A y \in S : x <= y

\* ------------------------------------------------------------------------
\* Strings as character sequences
\* ------------------------------------------------------------------------

Letters == {"A", "B", "C", "P", "a", "b", "c", "k", "v", "w", "x", "_"}

Digits == {"0", "1", "2"}

\* The characters of the model in byte order, as sort.Strings compares them.
ByteOrder == <<"$", "(", ")", "-", ".", "0", "1", "2", "A", "B", "C", "P", "_",
               "a", "b", "c", "k", "v", "w", "x">>

CharRank(c) == CHOOSE i \in DOMAIN ByteOrder : ByteOrder[i] = c

RECURSIVE StrLess(_, _)
StrLess(a, b) ==
  IF b = <<>> THEN FALSE
  ELSE IF a = <<>> THEN TRUE
  ELSE IF a[1] # b[1] THEN CharRank(a[1]) < CharRank(b[1])
  ELSE StrLess(Tail(a), Tail(b))

\* sort.Strings on a set of distinct strings
RECURSIVE SortStrings(_)
SortStrings(S) ==
  IF S = {} THEN <<>>
  ELSE LET m == CHOOSE x \in S : \A y \in S \ {x} : StrLess(x, y)
       IN  <<m>> \o SortStrings(S \ {m})

\* ------------------------------------------------------------------------
\* Expansion engine (third_party/kubernetes/forked/golang/expansion)
\* ------------------------------------------------------------------------

syntaxWrap(name) == <<"$", "(">> \o name \o <<")">>

\* a mapping that drops the references it cannot resolve
MappingFuncForDroppingUnbound(vars, name) ==
  IF name \in DOMAIN vars THEN vars[name] ELSE <<>>

\* MappingFuncFor(vars)(name)
MappingFuncFor(vars, name) ==
  IF name \in DOMAIN vars THEN vars[name] ELSE syntaxWrap(name)

\* a reader for which a second '$' is an ordinary character
tryReadVariableNameNoEscape(input) ==
  IF input[1] = "("
    THEN LET closers == {i \in 2..Len(input) : input[i] = ")"}
         IN  IF closers # {}
               THEN [read |-> SubSeq(input, 2, MinOf(closers) - 1),
                     isVar |-> TRUE, advance |-> MinOf(closers)]
               ELSE [read |-> <<"$", "(">>, isVar |-> FALSE, advance |-> 1]
  ELSE [read |-> <<"$">>, isVar |-> FALSE, advance |-> 0]

\* input is the text after an operator '$'; never empty when called.
tryReadVariableName(input) ==
  IF input[1] = "$"
    THEN [read |-> <<"$">>, isVar |-> FALSE, advance |-> 1]
  ELSE IF input[1] = "("
    THEN LET closers == {i \in 2..Len(input) : input[i] = ")"}
         IN  IF closers # {}
               THEN [read |-> SubSeq(input, 2, MinOf(closers) - 1),
                     isVar |-> TRUE, advance |-> MinOf(closers)]
               ELSE [read |-> <<"$", "(">>, isVar |-> FALSE, advance |-> 1]
  ELSE [read |-> <<"$", input[1]>>, isVar |-> FALSE, advance |-> 1]

\* The scanning loop of Expand: cursor and checkpoint are 1-based positions.
RECURSIVE ExpandLoop(_, _, _, _, _)
ExpandLoop(input, vars, cursor, checkpoint, buf) ==
  IF cursor > Len(input)
    THEN buf \o SubSeq(input, checkpoint, Len(input))
  ELSE IF input[cursor] = "$" /\ cursor + 1 <= Len(input)
    THEN LET r    == tryReadVariableName(SubSeq(input, cursor + 1, Len(input)))
             out  == IF r.isVar THEN MappingFuncFor(vars, r.read) ELSE r.read
             next == cursor + r.advance
         IN  ExpandLoop(input, vars, next + 1, next + 1,
                        buf \o SubSeq(input, checkpoint, cursor - 1) \o out)
  ELSE ExpandLoop(input, vars, cursor + 1, checkpoint, buf)

Expand(input, vars) == ExpandLoop(input, vars, 1, 1, <<>>)

\* ------------------------------------------------------------------------
\* Reference index (refmap.go): src -> dsts and dst -> srcs, keyed by
\* <<namespace, name>>
\* ------------------------------------------------------------------------

EmptyRefMap == [srcDsts |-> EmptyMap, dstSrcs |-> EmptyMap]

refMapDsts(m, namespace, src) ==
  IF <<namespace, src>> \in DOMAIN m.srcDsts THEN m.srcDsts[<<namespace, src>>] ELSE {}

refMapSrcs(m, namespace, dst) ==
  IF <<namespace, dst>> \in DOMAIN m.dstSrcs THEN m.dstSrcs[<<namespace, dst>>] ELSE {}

refMapHas(m, namespace, src, dst) == dst \in refMapDsts(m, namespace, src)

refMapAdd(m, namespace, src, dst) ==
  [srcDsts |-> MapPut(m.srcDsts, <<namespace, src>>,
                      refMapDsts(m, namespace, src) \cup {dst}),
   dstSrcs |-> MapPut(m.dstSrcs, <<namespace, dst>>,
                      refMapSrcs(m, namespace, dst) \cup {src})]

\* a rem that forgets the reverse map
refMapRemForwardOnly(m, namespace, src, dst) ==
  [srcDsts |-> IF refMapDsts(m, namespace, src) \ {dst} = {}
                 THEN MapDel(m.srcDsts, <<namespace, src>>)
               ELSE MapPut(m.srcDsts, <<namespace, src>>,
                           refMapDsts(m, namespace, src) \ {dst}),
   dstSrcs |-> m.dstSrcs]

refMapRem(m, namespace, src, dst) ==
  LET dsts == refMapDsts(m, namespace, src) \ {dst}
      srcs == refMapSrcs(m, namespace, dst) \ {src}
  IN  [srcDsts |-> IF dsts = {} THEN MapDel(m.srcDsts, <<namespace, src>>)
                   ELSE MapPut(m.srcDsts, <<namespace, src>>, dsts),
       dstSrcs |-> IF srcs = {} THEN MapDel(m.dstSrcs, <<namespace, dst>>)
                   ELSE MapPut(m.dstSrcs, <<namespace, dst>>, srcs)]

RECURSIVE refMapRemAll(_, _, _, _)
refMapRemAll(m, namespace, src, gone) ==
  IF gone = {} THEN m
  ELSE LET d == CHOOSE x \in gone : TRUE
       IN  refMapRemAll(refMapRem(m, namespace, src, d), namespace, src, gone \ {d})

RECURSIVE refMapAddAll(_, _, _, _)
refMapAddAll(m, namespace, src, new) ==
  IF new = {} THEN m
  ELSE LET d == CHOOSE x \in new : TRUE
       IN  refMapAddAll(IF refMapHas(m, namespace, src, d) THEN m
                        ELSE refMapAdd(m, namespace, src, d),
                        namespace, src, new \ {d})

\* a set that adds the missing edges and removes none
refMapSetAdding(m, namespace, src, dsts) == refMapAddAll(m, namespace, src, dsts)

\* set(namespace, src, dsts): dsts is the set of keys of the Go map (nil = {})
refMapSet(m, namespace, src, dsts) ==
  refMapAddAll(refMapRemAll(m, namespace, src, refMapDsts(m, namespace, src) \ dsts),
               namespace, src, dsts)

\* ------------------------------------------------------------------------
\* Status conditions (conditions.go)
\* ------------------------------------------------------------------------

CreateVariablesErrorReason == "CreateVariablesError"

ConfigMapSecretRenderFailure == "RenderFailure"

ConditionTrue == "True"

ConditionFalse == "False"

NewConfigMapSecretCondition(typ, status, reason, message, t) ==
  [type |-> typ, status |-> status, lastUpdateTime |-> t,
   lastTransitionTime |-> t, reason |-> reason, message |-> message]

HasConfigMapSecretCondition(status, typ) ==
  \E i \in DOMAIN status.conditions : status.conditions[i].type = typ

\* the first condition of the type; used only when one exists
GetConfigMapSecretCondition(status, typ) ==
  status.conditions[MinOf({i \in DOMAIN status.conditions :
                             status.conditions[i].type = typ})]

RemoveConfigMapSecretCondition(status, typ) ==
  [status EXCEPT !.conditions = SelectSeq(status.conditions, LAMBDA c : c.type # typ)]

\* a condition that is appended without removing the one it replaces
SetConfigMapSecretConditionAppending(status, cond) ==
  [status EXCEPT !.conditions = Append(status.conditions, cond)]

\* a condition that always takes the transition time of the new condition
SetConfigMapSecretConditionRestamping(status, cond) ==
  IF /\ HasConfigMapSecretCondition(status, cond.type)
     /\ GetConfigMapSecretCondition(status, cond.type).status = cond.status
     /\ GetConfigMapSecretCondition(status, cond.type).reason = cond.reason
     /\ GetConfigMapSecretCondition(status, cond.type).message = cond.message
    THEN status
  ELSE [status EXCEPT !.conditions =
          Append(RemoveConfigMapSecretCondition(status, cond.type).conditions, cond)]

SetConfigMapSecretCondition(status, cond) ==
  LET has  == HasConfigMapSecretCondition(status, cond.type)
      prev == GetConfigMapSecretCondition(status, cond.type)
  IN  IF has /\ prev.status = cond.status /\ prev.reason = cond.reason
             /\ prev.message = cond.message
        THEN status
      ELSE LET c == IF has /\ prev.status = cond.status
                      THEN [cond EXCEPT !.lastTransitionTime = prev.lastTransitionTime]
                      ELSE cond
               removed == RemoveConfigMapSecretCondition(status, cond.type)
           IN  [removed EXCEPT !.conditions = Append(removed.conditions, c)]

\* ------------------------------------------------------------------------
\* Errors
\* ------------------------------------------------------------------------

NoErr == [kind |-> "none", msg |-> <<>>]

\* &configError{err} and newConfigError(...)
ConfigError(msg) == [kind |-> "config", msg |-> msg]

isConfigError(err) == err.kind = "config"

NotFoundMsg(resource, name) == <<"NotFound", resource, name>>

MissingKeyMsg(kind, key, namespace, name) ==
  <<"Couldn't find key", key, "in", kind, namespace, name>>

NilObj == [exists |-> FALSE]

\* ------------------------------------------------------------------------
\* Variable resolver
\* ------------------------------------------------------------------------

IsEnvVarName(key) ==
  /\ key # <<>>
  /\ key[1] \in Letters
  /\ \A i \in 2..Len(key) : key[i] \in Letters \cup Digits

\* a check of the key without its prefix
validPrefixedKeyUnprefixed(prefix, key) ==
  [key |-> IF prefix # <<>> THEN prefix \o key ELSE key,
   valid |-> IsEnvVarName(key)]

validPrefixedKey(prefix, key) ==
  [key |-> IF prefix # <<>> THEN prefix \o key ELSE key,
   valid |-> IsEnvVarName(IF prefix # <<>> THEN prefix \o key ELSE key)]

\* a Get for which every reference is optional
cachedGetAllOptional(cache, objs, resource, ref) ==
  IF ref.name \in DOMAIN cache
    THEN [obj |-> cache[ref.name], err |-> NoErr, cache |-> cache]
  ELSE IF ~objs[ref.name].exists
    THEN [obj |-> NilObj, err |-> NoErr, cache |-> cache]
  ELSE [obj |-> objs[ref.name], err |-> NoErr,
        cache |-> MapPut(cache, ref.name, objs[ref.name])]

\* a Get for which no reference is optional
cachedGetAllRequired(cache, objs, resource, ref) ==
  IF ref.name \in DOMAIN cache
    THEN [obj |-> cache[ref.name], err |-> NoErr, cache |-> cache]
  ELSE IF ~objs[ref.name].exists
    THEN [obj |-> NilObj, err |-> ConfigError(NotFoundMsg(resource, ref.name)),
          cache |-> cache]
  ELSE [obj |-> objs[ref.name], err |-> NoErr,
        cache |-> MapPut(cache, ref.name, objs[ref.name])]

\* client.Get of one object by name, with the per-reconcile cache in front of it:
\* objs is what the API server holds in the namespace, resource names the kind in
\* the not-found error.  [obj, err, cache]
cachedGet(cache, objs, resource, ref) ==
  IF ref.name \in DOMAIN cache
    THEN [obj |-> cache[ref.name], err |-> NoErr, cache |-> cache]
  ELSE IF ~objs[ref.name].exists
    THEN IF ref.optional
           THEN [obj |-> NilObj, err |-> NoErr, cache |-> cache]
           ELSE [obj |-> NilObj, err |-> ConfigError(NotFoundMsg(resource, ref.name)),
                 cache |-> cache]
  ELSE [obj |-> objs[ref.name], err |-> NoErr,
        cache |-> MapPut(cache, ref.name, objs[ref.name])]

\* secret(ctx, cache, namespace, ref)
secret(cache, cl, ref) == cachedGet(cache, cl.secrets, "secrets", ref)

\* configMap(ctx, cache, namespace, ref)
configMap(cache, cl, ref) == cachedGet(cache, cl.configMaps, "configmaps", ref)

ValidKeys(prefix, data) == {k \in DOMAIN data : validPrefixedKey(prefix, k).valid}

\* the values of one data map under a prefix: prefixed valid key -> value
PrefixedValues(prefix, data) ==
  [pk \in {validPrefixedKey(prefix, k).key : k \in ValidKeys(prefix, data)} |->
     data[CHOOSE k \in ValidKeys(prefix, data) : validPrefixedKey(prefix, k).key = pk]]

InvalidKeys(prefix, data) ==
  {validPrefixedKey(prefix, k).key : k \in DOMAIN data \ ValidKeys(prefix, data)}

\* secretValues after its call of secret returned got
secretValuesOf(got, prefix) ==
  IF ~got.obj.exists \/ got.err # NoErr
    THEN [values |-> EmptyMap, invalidKeys |-> {}, err |-> got.err, cache |-> got.cache]
  ELSE [values |-> PrefixedValues(prefix, got.obj.data),
        invalidKeys |-> InvalidKeys(prefix, got.obj.data),
        err |-> NoErr, cache |-> got.cache]

secretValues(cache, cl, prefix, ref) == secretValuesOf(secret(cache, cl, ref), prefix)

\* secretValue after its call of secret returned got
secretValueOf(got, namespace, ref) ==
  IF ~got.obj.exists \/ got.err # NoErr
    THEN [value |-> <<>>, found |-> FALSE, err |-> got.err, cache |-> got.cache]
  ELSE IF ref.key \in DOMAIN got.obj.data
    THEN [value |-> got.obj.data[ref.key], found |-> TRUE, err |-> NoErr,
          cache |-> got.cache]
  ELSE IF ref.optional
    THEN [value |-> <<>>, found |-> FALSE, err |-> NoErr, cache |-> got.cache]
  ELSE [value |-> <<>>, found |-> FALSE,
        err |-> ConfigError(MissingKeyMsg("Secret", ref.key, namespace, ref.name)),
        cache |-> got.cache]

secretValue(cache, cl, namespace, ref) ==
  secretValueOf(secret(cache, cl, [name |-> ref.name, optional |-> ref.optional]),
                namespace, ref)

\* configMapValues after its call of configMap returned got
configMapValuesOf(got, prefix) ==
  IF ~got.obj.exists \/ got.err # NoErr
    THEN [values |-> EmptyMap, invalidKeys |-> {}, err |-> got.err, cache |-> got.cache]
  ELSE [values |-> MapMerge(PrefixedValues(prefix, got.obj.data),
                            PrefixedValues(prefix, got.obj.binaryData)),
        invalidKeys |-> InvalidKeys(prefix, got.obj.data)
                        \cup InvalidKeys(prefix, got.obj.binaryData),
        err |-> NoErr, cache |-> got.cache]

configMapValues(cache, cl, prefix, ref) ==
  configMapValuesOf(configMap(cache, cl, ref), prefix)

\* configMapValue after its call of configMap returned got
configMapValueOf(got, namespace, ref) ==
  IF ~got.obj.exists \/ got.err # NoErr
    THEN [value |-> <<>>, found |-> FALSE, err |-> got.err, cache |-> got.cache]
  ELSE IF ref.key \in DOMAIN got.obj.data
    THEN [value |-> got.obj.data[ref.key], found |-> TRUE, err |-> NoErr,
          cache |-> got.cache]
  ELSE IF ref.key \in DOMAIN got.obj.binaryData
    THEN [value |-> got.obj.binaryData[ref.key], found |-> TRUE, err |-> NoErr,
          cache |-> got.cache]
  ELSE IF ref.optional
    THEN [value |-> <<>>, found |-> FALSE, err |-> NoErr, cache |-> got.cache]
  ELSE [value |-> <<>>, found |-> FALSE,
        err |-> ConfigError(MissingKeyMsg("ConfigMap", ref.key, namespace, ref.name)),
        cache |-> got.cache]

configMapValue(cache, cl, namespace, ref) ==
  configMapValueOf(configMap(cache, cl, [name |-> ref.name, optional |-> ref.optional]),
                   namespace, ref)

\* The resolver state st = [vars, secrets, configMaps, err, events]: secrets and
\* configMaps are the per-reconcile caches, events the warnings handed to the
\* recorder.

InvalidKeysEvent(keys, kind, namespace, name) ==
  [reason |-> "InvalidTemplateVariableNames", keys |-> SortStrings(keys),
   kind |-> kind, namespace |-> namespace, name |-> name]

\* the body of the varsFrom loop once the source's values r are read
varsFromMerge(st, r, kind, namespace, name) ==
  IF r.err # NoErr
    THEN [st EXCEPT !.err = r.err]
  ELSE [st EXCEPT
          !.vars = MapMerge(@, r.values),
          !.events = IF r.invalidKeys # {}
                       THEN Append(@, InvalidKeysEvent(r.invalidKeys, kind, namespace, name))
                       ELSE @]

\* the cache a read leaves behind, stored in the resolver state
WithSecretCache(st, r) == [st EXCEPT !.secrets = r.cache]

WithConfigMapCache(st, r) == [st EXCEPT !.configMaps = r.cache]

varsFromSecret(st, r, namespace, v) ==
  varsFromMerge(WithSecretCache(st, r), r, "Secret", namespace, v.secretRef.name)

varsFromConfigMap(st, r, namespace, v) ==
  varsFromMerge(WithConfigMapCache(st, r), r, "ConfigMap", namespace, v.configMapRef.name)

\* one iteration of the loop over cms.Spec.VarsFrom
varsFromStep(st, cl, namespace, v) ==
  IF v.secretRef.set
    THEN varsFromSecret(st, secretValues(st.secrets, cl, v.prefix, v.secretRef),
                        namespace, v)
  ELSE IF v.configMapRef.set
    THEN varsFromConfigMap(st, configMapValues(st.configMaps, cl, v.prefix, v.configMapRef),
                           namespace, v)
  ELSE st

RECURSIVE varsFromLoop(_, _, _, _, _)
varsFromLoop(st, cl, namespace, varsFrom, i) ==
  IF i > Len(varsFrom) \/ st.err # NoErr THEN st
  ELSE varsFromLoop(varsFromStep(st, cl, namespace, varsFrom[i]), cl, namespace,
                    varsFrom, i + 1)

\* the end of the body of the vars loop once the value r is read
varsBind(st, r, name) ==
  [st EXCEPT !.err = r.err,
             !.vars = IF r.err = NoErr /\ r.found THEN MapPut(@, name, r.value) ELSE @]

\* an iteration that stores a literal value as it is written
varsStepUnexpanded(st, cl, namespace, v) ==
  IF v.value # <<>>
    THEN [st EXCEPT !.vars = MapPut(@, v.name, v.value)]
  ELSE IF v.secretValue.set
    THEN varsBind(WithSecretCache(st, secretValue(st.secrets, cl, namespace, v.secretValue)),
                  secretValue(st.secrets, cl, namespace, v.secretValue), v.name)
  ELSE IF v.configMapValue.set
    THEN varsBind(WithConfigMapCache(st, configMapValue(st.configMaps, cl, namespace,
                                                        v.configMapValue)),
                  configMapValue(st.configMaps, cl, namespace, v.configMapValue), v.name)
  ELSE [st EXCEPT !.vars = MapPut(@, v.name, <<>>)]

\* one iteration of the loop over cms.Spec.Vars
varsStep(st, cl, namespace, v) ==
  IF v.value # <<>>
    THEN [st EXCEPT !.vars = MapPut(@, v.name, Expand(v.value, st.vars))]
  ELSE IF v.secretValue.set
    THEN varsBind(WithSecretCache(st, secretValue(st.secrets, cl, namespace, v.secretValue)),
                  secretValue(st.secrets, cl, namespace, v.secretValue), v.name)
  ELSE IF v.configMapValue.set
    THEN varsBind(WithConfigMapCache(st, configMapValue(st.configMaps, cl, namespace,
                                                        v.configMapValue)),
                  configMapValue(st.configMaps, cl, namespace, v.configMapValue), v.name)
  ELSE [st EXCEPT !.vars = MapPut(@, v.name, <<>>)]

RECURSIVE varsLoop(_, _, _, _, _)
varsLoop(st, cl, namespace, vars, i) ==
  IF i > Len(vars) \/ st.err # NoErr THEN st
  ELSE varsLoop(varsStep(st, cl, namespace, vars[i]), cl, namespace, vars, i + 1)

ResolverStart ==
  [vars |-> EmptyMap, secrets |-> EmptyMap, configMaps |-> EmptyMap,
   err |-> NoErr, events |-> <<>>]

\* what makeVariables returns from the final resolver state
ResolverResult(st) ==
  [vars |-> IF st.err = NoErr THEN st.vars ELSE EmptyMap,
   err |-> st.err, events |-> st.events]

\* a resolver that reads vars before varsFrom
makeVariablesVarsFirst(cms, cl) ==
  ResolverResult(
    varsFromLoop(varsLoop(ResolverStart, cl, cms.namespace, cms.spec.vars, 1),
                 cl, cms.namespace, cms.spec.varsFrom, 1))

\* makeVariables(ctx, cms): [vars, err, events]
makeVariables(cms, cl) ==
  ResolverResult(
    varsLoop(varsFromLoop(ResolverStart, cl, cms.namespace, cms.spec.varsFrom, 1),
             cl, cms.namespace, cms.spec.vars, 1))

\* ------------------------------------------------------------------------
\* Rendering and ownership
\* ------------------------------------------------------------------------

GroupVersion == <<"secrets.mz.com", "v1alpha1">>

SecretTypeOpaque == "Opaque"

\* metav1.NewControllerRef(cms, gvk)
NewControllerRef(cms) ==
  [apiVersion |-> GroupVersion, kind |-> "ConfigMapSecret", name |-> cms.name,
   uid |-> cms.uid, controller |-> TRUE, blockOwnerDeletion |-> TRUE]

TargetName(cms) ==
  IF cms.spec.template.metadata.name = "" THEN cms.name
  ELSE cms.spec.template.metadata.name

\* the data of the rendered Secret: every data and binaryData value expanded
RenderData(template, vars) ==
  MapMerge([k \in DOMAIN template.data |-> Expand(template.data[k], vars)],
           [k \in DOMAIN template.binaryData |-> Expand(template.binaryData[k], vars)])

\* renderSecret after makeVariables returned mv
renderSecretWith(cms, mv) ==
  IF mv.err # NoErr
    THEN [secret |-> NilObj, name |-> "", namespace |-> "",
          reason |-> CreateVariablesErrorReason, err |-> mv.err, vars |-> EmptyMap]
  ELSE [secret |-> [exists |-> TRUE,
                    labels |-> cms.spec.template.metadata.labels,
                    annotations |-> cms.spec.template.metadata.annotations,
                    data |-> RenderData(cms.spec.template, mv.vars),
                    type |-> SecretTypeOpaque,
                    ownerReferences |-> <<NewControllerRef(cms)>>],
        name |-> TargetName(cms), namespace |-> cms.namespace,
        reason |-> "", err |-> NoErr, vars |-> mv.vars]

\* renderSecret(ctx, cms): [secret, name, namespace, reason, err, vars]
renderSecret(cms, cl) == renderSecretWith(cms, makeVariables(cms, cl))

AlreadyOwnedError(cms, ref) == [kind |-> "AlreadyOwned", msg |-> <<cms.name, ref.uid>>]

ControllerIndexes(refs) == {i \in DOMAIN refs : refs[i].controller}

\* a setOwner that replaces the controller reference of another owner
setOwnerAtTakingOver(cms, found, owner, i) ==
  IF found.ownerReferences[i] # owner
    THEN [ownerChanged |-> TRUE, err |-> NoErr,
          secret |-> [found EXCEPT !.ownerReferences[i] = owner],
          cmsOwnerReferences |-> cms.ownerReferences]
  ELSE [ownerChanged |-> FALSE, err |-> NoErr, secret |-> found,
        cmsOwnerReferences |-> cms.ownerReferences]

\* the body of the loop of setOwner at the first controller reference, refs[i]
setOwnerAt(cms, found, owner, i) ==
  IF found.ownerReferences[i].uid # cms.uid
    THEN [ownerChanged |-> FALSE,
          err |-> AlreadyOwnedError(cms, found.ownerReferences[i]),
          secret |-> found, cmsOwnerReferences |-> cms.ownerReferences]
  ELSE IF found.ownerReferences[i] # owner
    THEN [ownerChanged |-> TRUE, err |-> NoErr,
          secret |-> [found EXCEPT !.ownerReferences[i] = owner],
          cmsOwnerReferences |-> cms.ownerReferences]
  ELSE [ownerChanged |-> FALSE, err |-> NoErr, secret |-> found,
        cmsOwnerReferences |-> cms.ownerReferences]

\* setOwner(log, cms, secret): [ownerChanged, err, secret, cmsOwnerReferences],
\* secret and cmsOwnerReferences being the two objects as the call leaves them.
\* With no controller reference the new one is appended to the list of the
\* source (cms.OwnerReferences = append(secret.OwnerReferences, *owner)).
setOwner(cms, found) ==
  IF ControllerIndexes(found.ownerReferences) # {}
    THEN setOwnerAt(cms, found, NewControllerRef(cms),
                    MinOf(ControllerIndexes(found.ownerReferences)))
  ELSE [ownerChanged |-> TRUE, err |-> NoErr, secret |-> found,
        cmsOwnerReferences |-> Append(found.ownerReferences, NewControllerRef(cms))]

\* a comparison that looks at the data alone
shouldUpdateDataOnly(a, b) == a.data # b.data

shouldUpdate(a, b) ==
  \/ a.type # b.type
  \/ a.annotations # b.annotations
  \/ a.labels # b.labels
  \/ a.data # b.data

\* metav1.GetControllerOf and the checks of getOwner: [set, name, uid]
getOwnerOf(ownerReferences, ctl) ==
  IF ctl = {}
    THEN [set |-> FALSE, name |-> "", uid |-> ""]
  ELSE IF \/ ownerReferences[MinOf(ctl)].kind # "ConfigMapSecret"
          \/ ownerReferences[MinOf(ctl)].apiVersion[1] # GroupVersion[1]
    THEN [set |-> FALSE, name |-> "", uid |-> ""]
  ELSE [set |-> TRUE, name |-> ownerReferences[MinOf(ctl)].name,
        uid |-> ownerReferences[MinOf(ctl)].uid]

\* getOwner(secret)
getOwner(ownerReferences) ==
  getOwnerOf(ownerReferences, ControllerIndexes(ownerReferences))

\* varRefs(varsFrom, vars): the names of the referenced Secrets and ConfigMaps
varRefs(varsFrom, vars) ==
  [secrets |->
     {varsFrom[i].secretRef.name : i \in {j \in DOMAIN varsFrom : varsFrom[j].secretRef.set}}
     \cup {vars[i].secretValue.name : i \in {j \in DOMAIN vars : vars[j].secretValue.set}},
   configMaps |->
     {varsFrom[i].configMapRef.name :
        i \in {j \in DOMAIN varsFrom : varsFrom[j].configMapRef.set}}
     \cup {vars[i].configMapValue.name :
             i \in {j \in DOMAIN vars : vars[j].configMapValue.set}}]

\* a syncStatus that never finds a difference to write
StatusChangeNever(cms, status) == [status |-> status, update |-> FALSE]

\* a syncStatus that writes whether or not the status differs
StatusChangeAlways(cms, status) == [status |-> status, update |-> TRUE]

\* the end of syncStatus: the status to write and whether it differs
StatusChange(cms, status) == [status |-> status, update |-> cms.status # status]

\* a status that keeps the observed generation it found
syncStatusKeepingObserved(cms, condStatus, reason, message, t) ==
  StatusChange(cms,
    SetConfigMapSecretCondition(cms.status,
      NewConfigMapSecretCondition(ConfigMapSecretRenderFailure, condStatus, reason,
                                  message, t)))

\* syncStatus up to the API call
syncStatus(cms, condStatus, reason, message, t) ==
  StatusChange(cms,
    SetConfigMapSecretCondition(
      [observedGeneration |-> cms.generation, conditions |-> cms.status.conditions],
      NewConfigMapSecretCondition(ConfigMapSecretRenderFailure, condStatus, reason,
                                  message, t)))

\* a success that leaves the status as it is
syncSuccessStatusKept(cms, t) == [status |-> cms.status, update |-> FALSE]

\* a success that keeps the reason and message of the condition it found
syncSuccessStatusKeepingReason(cms, t) ==
  IF HasConfigMapSecretCondition(cms.status, ConfigMapSecretRenderFailure)
    THEN syncStatus(cms, ConditionFalse,
           GetConfigMapSecretCondition(cms.status, ConfigMapSecretRenderFailure).reason,
           GetConfigMapSecretCondition(cms.status, ConfigMapSecretRenderFailure).message,
           t)
  ELSE syncStatus(cms, ConditionFalse, "", <<>>, t)

syncSuccessStatus(cms, t) == syncStatus(cms, ConditionFalse, "", <<>>, t)

\* a failure status that reports RenderFailure=False
syncRenderFailureStatusAsSuccess(cms, reason, message, t) ==
  syncStatus(cms, ConditionFalse, reason, message, t)

syncRenderFailureStatus(cms, reason, message, t) ==
  syncStatus(cms, ConditionTrue, reason, message, t)

\* ------------------------------------------------------------------------
\* sync and cleanup
\* ------------------------------------------------------------------------

\* The API server rejects a write made from a stale copy of the object.
ConflictError == [kind |-> "Conflict", msg |-> <<>>]

StatusErr(st, conflict) == IF st.update /\ conflict THEN ConflictError ELSE NoErr

\* What sync does, as a record: verb, name and secret are the write to the target
\* Secret ("none": no call), statusUpdate and status the call of Status().Update,
\* err and requeue what sync returns.

\* a sync that turns every render error into a requeue
syncRenderFailedRequeueing(renderErr, st, conflict) ==
  [verb |-> "none", name |-> "", secret |-> NilObj,
   statusUpdate |-> st.update, status |-> st.status,
   err |-> StatusErr(st, conflict), requeue |-> TRUE]

\* sync when renderSecret failed with renderErr: the deferred status write
syncRenderFailed(renderErr, st, conflict) ==
  [verb |-> "none", name |-> "", secret |-> NilObj,
   statusUpdate |-> st.update, status |-> st.status,
   err |-> IF isConfigError(renderErr) THEN StatusErr(st, conflict) ELSE renderErr,
   requeue |-> isConfigError(renderErr) \/ StatusErr(st, conflict) # NoErr]

\* sync from the target write on: verb is the call made, st the success status
syncWrite(verb, name, obj, st, conflict) ==
  [verb |-> verb, name |-> name, secret |-> obj,
   statusUpdate |-> st.update, status |-> st.status,
   err |-> StatusErr(st, conflict), requeue |-> FALSE]

\* an update that leaves the labels of the found Secret
OverwrittenKeepingLabels(found, rendered) ==
  [found EXCEPT !.annotations = rendered.annotations, !.data = rendered.data,
                !.type = rendered.type]

\* the four fields sync copies from the rendered Secret onto the found one
Overwritten(found, rendered) ==
  [found EXCEPT !.labels = rendered.labels, !.annotations = rendered.annotations,
                !.data = rendered.data, !.type = rendered.type]

\* sync after setOwner returned so
syncOwned(cms, r, so, st, conflict) ==
  IF so.err # NoErr
    THEN [verb |-> "none", name |-> r.name, secret |-> NilObj,
          statusUpdate |-> FALSE, status |-> cms.status,
          err |-> so.err, requeue |-> FALSE]
  ELSE IF so.ownerChanged \/ shouldUpdate(so.secret, r.secret)
    THEN syncWrite("update", r.name, Overwritten(so.secret, r.secret), st, conflict)
  ELSE syncWrite("none", r.name, NilObj, st, conflict)

\* sync after renderSecret returned r
syncRendered(cms, cl, conflict, t, r) ==
  IF r.err # NoErr
    THEN syncRenderFailed(r.err, syncRenderFailureStatus(cms, r.reason, r.err.msg, t),
                          conflict)
  ELSE IF ~cl.secrets[r.name].exists
    THEN syncWrite("create", r.name, r.secret, syncSuccessStatus(cms, t), conflict)
  ELSE syncOwned(cms, r, setOwner(cms, cl.secrets[r.name]), syncSuccessStatus(cms, t),
                 conflict)

\* sync(ctx, log, cms) as a function of what its API reads return: cl.secrets and
\* cl.configMaps are the objects of cms.namespace by name, conflict tells whether
\* the source changed on the server after cms was read, t is the time.
sync(cms, cl, conflict, t) == syncRendered(cms, cl, conflict, t, renderSecret(cms, cl))

\* a cleanup that deletes nothing
cleanupNothing(cms, ownedIndex, secretsByName) == {}

\* a cleanup that does not spare the target
cleanupTargetToo(cms, ownedIndex, secretsByName) ==
  {n \in refMapSrcs(ownedIndex, cms.namespace, cms.uid) : secretsByName[n].exists}

\* cleanup(ctx, log, cms): the names of the Secrets it deletes, given the owned
\* index and the Secrets of the namespace
cleanup(cms, ownedIndex, secretsByName) ==
  {n \in refMapSrcs(ownedIndex, cms.namespace, cms.uid) :
     n # TargetName(cms) /\ secretsByName[n].exists}

\* ------------------------------------------------------------------------
\* The cluster and the controller as a state machine
\* ------------------------------------------------------------------------

\* The number of changes others make to the cluster in one behaviour.
MaxChanges == 1

Namespace == "ns"

SourceNames == {"s1"}

DepSecretNames == {"d1"}

ConfigMapNames == {"c1"}

\* "s1" is the target of a template with no name, "t2" a named target.
TargetNames == {"s1", "t2"}

SecretNames == DepSecretNames \cup TargetNames

Key(name) == <<Namespace, name>>

NoSel == [set |-> FALSE, name |-> "", key |-> <<>>, optional |-> FALSE]

NoRef == [set |-> FALSE, name |-> "", optional |-> FALSE]

SecretKey(name, key, optional) ==
  [set |-> TRUE, name |-> name, key |-> key, optional |-> optional]

ObjRef(name, optional) == [set |-> TRUE, name |-> name, optional |-> optional]

\* $(A) drawn from a required key of Secret d1
SpecRequired ==
  [template |-> [metadata |-> [name |-> "", labels |-> ("app" :> "one"),
                               annotations |-> EmptyMap],
                 data |-> (<<"k">> :> <<"$", "(", "A", ")">>),
                 binaryData |-> EmptyMap],
   varsFrom |-> <<>>,
   vars |-> <<[name |-> <<"A">>, value |-> <<>>,
               secretValue |-> SecretKey("d1", <<"a">>, FALSE),
               configMapValue |-> NoSel]>>]

\* $(A) from an optional key of Secret d1 over the optional ConfigMap c1
SpecOptional ==
  [template |-> [metadata |-> [name |-> "", labels |-> EmptyMap,
                               annotations |-> ("note" :> "two")],
                 data |-> (<<"k">> :> <<"$", "(", "A", ")", "$", "(", "B", ")">>),
                 binaryData |-> EmptyMap],
   varsFrom |-> <<[prefix |-> <<>>, secretRef |-> NoRef,
                   configMapRef |-> ObjRef("c1", TRUE)]>>,
   vars |-> <<[name |-> <<"A">>, value |-> <<>>,
               secretValue |-> SecretKey("d1", <<"a">>, TRUE),
               configMapValue |-> NoSel]>>]

\* a named target, a literal variable and a binaryData value
SpecRenamed ==
  [template |-> [metadata |-> [name |-> "t2", labels |-> EmptyMap,
                               annotations |-> EmptyMap],
                 data |-> (<<"k">> :> <<"x">>),
                 binaryData |-> (<<"b">> :> <<"$", "(", "A", ")">>)],
   varsFrom |-> <<>>,
   vars |-> <<[name |-> <<"A">>, value |-> <<"v">>, secretValue |-> NoSel,
               configMapValue |-> NoSel]>>]

SpecChoices == {SpecRequired, SpecOptional, SpecRenamed}

\* contents others give the Secret d1 and the ConfigMap c1
DepSecretData == {(<<"a">> :> <<"v">>), (<<"a">> :> <<"w">>), (<<"b">> :> <<"v">>)}

ConfigMapData == {(<<"A">> :> <<"c">>) @@ (<<"B">> :> <<"b">>)}

PlainSecret(data) ==
  [exists |-> TRUE, labels |-> EmptyMap, annotations |-> EmptyMap, data |-> data,
   type |-> SecretTypeOpaque, ownerReferences |-> <<>>]

OtherRef ==
  [apiVersion |-> <<"apps", "v1">>, kind |-> "Deployment", name |-> "web",
   uid |-> "u-web", controller |-> FALSE, blockOwnerDeletion |-> FALSE]

\* Secrets others put under a target name: one with no controller owner, one
\* controlled by another object
UnownedSecret ==
  [exists |-> TRUE, labels |-> ("app" :> "old"), annotations |-> EmptyMap,
   data |-> (<<"c">> :> <<"x">>), type |-> "kubernetes.io/tls",
   ownerReferences |-> <<OtherRef>>]

ControlledSecret ==
  [exists |-> TRUE, labels |-> EmptyMap, annotations |-> EmptyMap,
   data |-> EmptyMap, type |-> SecretTypeOpaque,
   ownerReferences |-> <<OtherRef, [OtherRef EXCEPT !.controller = TRUE]>>]

ForeignSecrets == {UnownedSecret, ControlledSecret}

IdleLocals == [cms |-> NilObj, err |-> NoErr, requeue |-> FALSE]

VARIABLES
  apiCMS,         \* ConfigMapSecrets on the API server, by <<namespace, name>>
  apiSecrets,     \* Secrets on the API server
  apiConfigMaps,  \* ConfigMaps on the API server
  secrets,        \* r.secrets: source -> referenced Secret names
  configMaps,     \* r.configMaps: source -> referenced ConfigMap names
  owned,          \* r.owned: Secret name -> UID of its controlling source
  queue,          \* the work queue: the keys waiting for a reconcile
  events,         \* watch events not yet handed to their handler
  pc,             \* where the reconcile of each key stands
  rc,             \* the locals of the reconcile of each key
  changes,        \* the changes others have made so far
  now             \* the clock read by metav1.Now()

allVars == <<apiCMS, apiSecrets, apiConfigMaps, secrets, configMaps, owned, queue,
             events, pc, rc, changes, now>>

SecretEvent(name, obj, deleted) ==
  [kind |-> "Secret", namespace |-> Namespace, name |-> name,
   ownerReferences |-> obj.ownerReferences, deleted |-> deleted]

ConfigMapEvent(name) ==
  [kind |-> "ConfigMap", namespace |-> Namespace, name |-> name,
   ownerReferences |-> <<>>, deleted |-> FALSE]

\* For(&v1alpha1.ConfigMapSecret{}): a change of a source puts its key on the
\* queue.  The handler reads nothing but the key, so the model runs it with the
\* change instead of keeping the event in flight.
cmsEventHandler(q, cms) == q \cup {<<cms.namespace, cms.name>>}

NewCMS(name, uid, spec) ==
  [exists |-> TRUE, namespace |-> Namespace, name |-> name, uid |-> uid,
   generation |-> 1, spec |-> spec, ownerReferences |-> <<>>,
   status |-> [observedGeneration |-> 0, conditions |-> <<>>]]

\* What client.Get returns for the objects of the namespace, by name.
Cluster ==
  [secrets |-> [n \in SecretNames |-> apiSecrets[Key(n)]],
   configMaps |-> [n \in ConfigMapNames |-> apiConfigMaps[Key(n)]]]

\* The controller starts against a cluster that holds the source, possibly its
\* dependencies and possibly a Secret of others under the target name "s1"; the
\* informers announce every object they list.
InitialEvents ==
  (IF apiSecrets[Key("d1")].exists
     THEN <<SecretEvent("d1", apiSecrets[Key("d1")], FALSE)>> ELSE <<>>)
  \o (IF apiSecrets[Key("s1")].exists
        THEN <<SecretEvent("s1", apiSecrets[Key("s1")], FALSE)>> ELSE <<>>)
  \o (IF apiConfigMaps[Key("c1")].exists THEN <<ConfigMapEvent("c1")>> ELSE <<>>)

InitWith(targets) ==
  /\ \E sp \in SpecChoices :
       apiCMS = [k \in {Key(n) : n \in SourceNames} |-> NewCMS(k[2], "u1", sp)]
  /\ \E d \in {NilObj} \cup {PlainSecret(x) : x \in DepSecretData}, t \in targets :
       apiSecrets = [k \in {Key(n) : n \in SecretNames} |->
                       IF k[2] \in DepSecretNames THEN d
                       ELSE IF k[2] = "s1" THEN t ELSE NilObj]
  /\ \E c \in {NilObj} \cup {[exists |-> TRUE, data |-> x, binaryData |-> EmptyMap] :
                               x \in ConfigMapData} :
       apiConfigMaps = [k \in {Key(n) : n \in ConfigMapNames} |-> c]
  /\ secrets = EmptyRefMap
  /\ configMaps = EmptyRefMap
  /\ owned = EmptyRefMap
  /\ queue = {Key(n) : n \in SourceNames}
  /\ events = InitialEvents
  /\ pc = [k \in {Key(n) : n \in SourceNames} |-> "idle"]
  /\ rc = [k \in {Key(n) : n \in SourceNames} |-> IdleLocals]
  /\ changes = 0
  /\ now = 0

Init == InitWith({NilObj} \cup ForeignSecrets)

\* ---- the reconciler -----------------------------------------------------

\* a setRefs that records the Secrets and forgets the ConfigMaps
setRefsSecretsOnly(namespace, name, secretNames, configMapNames) ==
  /\ secrets' = refMapSet(secrets, namespace, name, secretNames)
  /\ configMaps' = configMaps

\* a setRefs that leaves the index alone when it is given no names
setRefsUnlessNil(namespace, name, secretNames, configMapNames) ==
  /\ secrets' = IF secretNames = {} /\ configMapNames = {} THEN secrets
                ELSE refMapSet(secrets, namespace, name, secretNames)
  /\ configMaps' = IF secretNames = {} /\ configMapNames = {} THEN configMaps
                   ELSE refMapSet(configMaps, namespace, name, configMapNames)

\* setRefs(namespace, name, secrets, configMaps)
setRefs(namespace, name, secretNames, configMapNames) ==
  /\ secrets' = refMapSet(secrets, namespace, name, secretNames)
  /\ configMaps' = refMapSet(configMaps, namespace, name, configMapNames)

\* a Reconcile that goes to sync without recording the references
ReconcileFoundUnrecorded(k, cms, refs) ==
  /\ UNCHANGED <<secrets, configMaps>>
  /\ pc' = [pc EXCEPT ![k] = "sync"]
  /\ rc' = [rc EXCEPT ![k] = [cms |-> cms, err |-> NoErr, requeue |-> FALSE]]

\* Reconcile up to the call of sync: the worker takes the key off the queue,
\* reads the source and records its references.
ReconcileFound(k, cms, refs) ==
  /\ setRefs(cms.namespace, cms.name, refs.secrets, refs.configMaps)
  /\ pc' = [pc EXCEPT ![k] = "sync"]
  /\ rc' = [rc EXCEPT ![k] = [cms |-> cms, err |-> NoErr, requeue |-> FALSE]]

ReconcileStart(k) ==
  /\ k \in queue
  /\ pc[k] = "idle"
  /\ queue' = queue \ {k}
  /\ IF ~apiCMS[k].exists
       THEN /\ setRefs(k[1], k[2], {}, {})
            /\ rc' = [rc EXCEPT ![k] = IdleLocals]
            /\ UNCHANGED pc
       ELSE ReconcileFound(k, apiCMS[k],
                           varRefs(apiCMS[k].spec.varsFrom, apiCMS[k].spec.vars))
  /\ UNCHANGED <<apiCMS, apiSecrets, apiConfigMaps, owned, events, changes, now>>

\* The effect of a call of sync that did res: the writes reach the API server,
\* which announces them.  A write that changes nothing is not announced, and
\* the status write is refused when the source changed after it was read.
ApplySync(k, cms, res) ==
  /\ apiSecrets' = IF res.verb # "none"
                     THEN [apiSecrets EXCEPT ![<<cms.namespace, res.name>>] = res.secret]
                     ELSE apiSecrets
  /\ apiCMS' = IF res.statusUpdate /\ apiCMS[k] = cms
                 THEN [apiCMS EXCEPT ![k].status = res.status]
                 ELSE apiCMS
  /\ events' = IF res.verb # "none" /\ apiSecrets[<<cms.namespace, res.name>>] # res.secret
                 THEN Append(events, SecretEvent(res.name, res.secret, FALSE))
                 ELSE events
  /\ queue' = IF res.statusUpdate /\ apiCMS[k] = cms
                THEN cmsEventHandler(queue, cms) ELSE queue
  /\ rc' = [rc EXCEPT ![k].err = res.err, ![k].requeue = res.requeue]

\* The call of sync: render, create or update the target, write the status.
ReconcileSync(k) ==
  /\ pc[k] = "sync"
  /\ ApplySync(k, rc[k].cms, sync(rc[k].cms, Cluster, apiCMS[k] # rc[k].cms, now))
  /\ pc' = [pc EXCEPT ![k] = "cleanup"]
  /\ UNCHANGED <<apiConfigMaps, secrets, configMaps, owned, changes, now>>

RECURSIVE DeleteEvents(_, _)
DeleteEvents(names, objs) ==
  IF names = {} THEN <<>>
  ELSE LET n == CHOOSE x \in names : TRUE
       IN  <<SecretEvent(n, objs[Key(n)], TRUE)>> \o DeleteEvents(names \ {n}, objs)

\* The deletes of a call of cleanup that removes the Secrets named gone.
ApplyCleanup(namespace, gone) ==
  /\ apiSecrets' = [x \in DOMAIN apiSecrets |->
                      IF x[1] = namespace /\ x[2] \in gone THEN NilObj
                      ELSE apiSecrets[x]]
  /\ events' = events \o DeleteEvents(gone, apiSecrets)

\* a Reconcile that returns the error of cleanup whenever cleanup fails
ReconcileResultCleanupFirst(syncErr, requeue, cleanupErr) ==
  [requeue |-> requeue, err |-> IF cleanupErr # NoErr THEN cleanupErr ELSE syncErr]

\* what Reconcile returns after sync returned (requeue, syncErr) and cleanup
\* cleanupErr: reconcile.Result{Requeue: requeue}, err
ReconcileResult(syncErr, requeue, cleanupErr) ==
  [requeue |-> requeue,
   err |-> IF cleanupErr # NoErr /\ syncErr = NoErr THEN cleanupErr ELSE syncErr]

\* The return of Reconcile with res: a failed or requeued reconcile puts its
\* key back on the queue; rc keeps what was returned.
ReconcileReturn(k, res) ==
  /\ queue' = IF res.err # NoErr \/ res.requeue THEN queue \cup {k} ELSE queue
  /\ pc' = [pc EXCEPT ![k] = "idle"]
  /\ rc' = [rc EXCEPT ![k] = [cms |-> NilObj, err |-> res.err, requeue |-> res.requeue]]

\* a Reconcile that skips cleanup when sync failed or asked for a requeue
ReconcileCleanupOnSuccess(k) ==
  /\ pc[k] = "cleanup"
  /\ ApplyCleanup(rc[k].cms.namespace,
                  IF rc[k].err = NoErr /\ ~rc[k].requeue
                    THEN cleanup(rc[k].cms, owned, Cluster.secrets) ELSE {})
  /\ ReconcileReturn(k, ReconcileResult(rc[k].err, rc[k].requeue, NoErr))
  /\ UNCHANGED <<apiCMS, apiConfigMaps, secrets, configMaps, owned, changes, now>>

\* The call of cleanup and the return of Reconcile.
ReconcileCleanup(k) ==
  /\ pc[k] = "cleanup"
  /\ ApplyCleanup(rc[k].cms.namespace, cleanup(rc[k].cms, owned, Cluster.secrets))
  /\ ReconcileReturn(k, ReconcileResult(rc[k].err, rc[k].requeue, NoErr))
  /\ UNCHANGED <<apiCMS, apiConfigMaps, secrets, configMaps, owned, changes, now>>

\* ---- the event handlers -------------------------------------------------

\* a handler that tells the owner of a Secret and nobody else
secretEventHandlerOwnerOnly(ev, owner) ==
  /\ owned' = IF ev.deleted \/ ~owner.set
                THEN refMapSet(owned, ev.namespace, ev.name, {})
                ELSE refMapSet(owned, ev.namespace, ev.name, {owner.uid})
  /\ queue' = queue \cup (IF owner.set THEN {<<ev.namespace, owner.name>>} ELSE {})
  /\ UNCHANGED <<secrets, configMaps>>

\* requests that add the owner a second time when it refers to the Secret
secretRequestsOwnerTwice(owner, namespace, cmsNames) ==
  (IF owner.set THEN SetToBag({<<namespace, owner.name>>}) ELSE EmptyBag)
  (+) SetToBag({<<namespace, n>> : n \in cmsNames})

\* the calls of q.Add in secretEventHandler, as the bag of their keys: the
\* owner, then every name of cmsNames but that of the owner
secretRequests(owner, namespace, cmsNames) ==
  (IF owner.set THEN SetToBag({<<namespace, owner.name>>}) ELSE EmptyBag)
  (+) SetToBag({<<namespace, n>> :
                  n \in {x \in cmsNames : ~(owner.set /\ owner.name = x)}})

\* a handler that records the owner of a Secret that was deleted, too
secretEventHandlerKeepingDeleted(ev, owner) ==
  /\ owned' = IF ~owner.set
                THEN refMapSet(owned, ev.namespace, ev.name, {})
                ELSE refMapSet(owned, ev.namespace, ev.name, {owner.uid})
  /\ queue' = queue \cup BagToSet(secretRequests(owner, ev.namespace,
                                     refMapSrcs(secrets, ev.namespace, ev.name)))
  /\ UNCHANGED <<secrets, configMaps>>

\* secretEventHandler(q, secret, deleted) with owner == getOwner(secret); the
\* queue keeps one entry for a key however often it is added
secretEventHandlerWith(ev, owner) ==
  /\ owned' = IF ev.deleted \/ ~owner.set
                THEN refMapSet(owned, ev.namespace, ev.name, {})
                ELSE refMapSet(owned, ev.namespace, ev.name, {owner.uid})
  /\ queue' = queue \cup BagToSet(secretRequests(owner, ev.namespace,
                                     refMapSrcs(secrets, ev.namespace, ev.name)))
  /\ UNCHANGED <<secrets, configMaps>>

secretEventHandler(ev) == secretEventHandlerWith(ev, getOwner(ev.ownerReferences))

\* configMapEventHandler()
configMapEventHandler(ev) ==
  /\ queue' = queue \cup {<<ev.namespace, n>> :
                            n \in refMapSrcs(configMaps, ev.namespace, ev.name)}
  /\ UNCHANGED <<secrets, configMaps, owned>>

RemoveAt(seq, i) == SubSeq(seq, 1, i - 1) \o SubSeq(seq, i + 1, Len(seq))

\* Each informer hands its events to its handler in order; informers of
\* different kinds run independently.
HandleEvent(i) ==
  /\ i \in DOMAIN events
  /\ \A j \in 1..(i - 1) : events[j].kind # events[i].kind
  /\ events' = RemoveAt(events, i)
  /\ IF events[i].kind = "Secret" THEN secretEventHandler(events[i])
     ELSE configMapEventHandler(events[i])
  /\ UNCHANGED <<apiCMS, apiSecrets, apiConfigMaps, pc, rc, changes, now>>

\* ---- changes made by others ---------------------------------------------

ExtUpdateSpec(k, sp) ==
  /\ changes < MaxChanges
  /\ apiCMS[k].exists
  /\ apiCMS[k].spec # sp
  /\ apiCMS' = [apiCMS EXCEPT ![k].spec = sp, ![k].generation = @ + 1]
  /\ queue' = cmsEventHandler(queue, apiCMS[k])
  /\ changes' = changes + 1
  /\ UNCHANGED <<apiSecrets, apiConfigMaps, secrets, configMaps, owned, events, pc, rc, now>>

\* a create or an update of a referenced Secret
ExtPutSecret(n, data) ==
  /\ changes < MaxChanges
  /\ apiSecrets[Key(n)] # PlainSecret(data)
  /\ apiSecrets' = [apiSecrets EXCEPT ![Key(n)] = PlainSecret(data)]
  /\ events' = Append(events, SecretEvent(n, PlainSecret(data), FALSE))
  /\ changes' = changes + 1
  /\ UNCHANGED <<apiCMS, apiConfigMaps, secrets, configMaps, owned, queue, pc, rc, now>>

ExtDeleteSecret(n) ==
  /\ changes < MaxChanges
  /\ apiSecrets[Key(n)].exists
  /\ apiSecrets' = [apiSecrets EXCEPT ![Key(n)] = NilObj]
  /\ events' = Append(events, SecretEvent(n, apiSecrets[Key(n)], TRUE))
  /\ changes' = changes + 1
  /\ UNCHANGED <<apiCMS, apiConfigMaps, secrets, configMaps, owned, queue, pc, rc, now>>

ExtPutConfigMap(n, data) ==
  /\ changes < MaxChanges
  /\ apiConfigMaps[Key(n)] # [exists |-> TRUE, data |-> data, binaryData |-> EmptyMap]
  /\ apiConfigMaps' = [apiConfigMaps EXCEPT
                         ![Key(n)] = [exists |-> TRUE, data |-> data,
                                      binaryData |-> EmptyMap]]
  /\ events' = Append(events, ConfigMapEvent(n))
  /\ changes' = changes + 1
  /\ UNCHANGED <<apiCMS, apiSecrets, secrets, configMaps, owned, queue, pc, rc, now>>

ExtDeleteConfigMap(n) ==
  /\ changes < MaxChanges
  /\ apiConfigMaps[Key(n)].exists
  /\ apiConfigMaps' = [apiConfigMaps EXCEPT ![Key(n)] = NilObj]
  /\ events' = Append(events, ConfigMapEvent(n))
  /\ changes' = changes + 1
  /\ UNCHANGED <<apiCMS, apiSecrets, secrets, configMaps, owned, queue, pc, rc, now>>

\* someone else creates or overwrites a Secret under a target name
ExtPutTarget(n, obj) ==
  /\ changes < MaxChanges
  /\ apiSecrets[Key(n)] # obj
  /\ apiSecrets' = [apiSecrets EXCEPT ![Key(n)] = obj]
  /\ events' = Append(events, SecretEvent(n, obj, FALSE))
  /\ changes' = changes + 1
  /\ UNCHANGED <<apiCMS, apiConfigMaps, secrets, configMaps, owned, queue, pc, rc, now>>

Controller ==
  \/ \E k \in DOMAIN pc : ReconcileStart(k)
  \/ \E k \in DOMAIN pc : ReconcileSync(k)
  \/ \E k \in DOMAIN pc : ReconcileCleanup(k)
  \/ \E i \in 1..Len(events) : HandleEvent(i)

DependencyChanges ==
  \/ \E k \in DOMAIN apiCMS, sp \in SpecChoices : ExtUpdateSpec(k, sp)
  \/ \E n \in DepSecretNames, d \in DepSecretData : ExtPutSecret(n, d)
  \/ \E n \in DepSecretNames : ExtDeleteSecret(n)
  \/ \E n \in ConfigMapNames, d \in ConfigMapData : ExtPutConfigMap(n, d)
  \/ \E n \in ConfigMapNames : ExtDeleteConfigMap(n)

TargetChanges ==
  \/ \E n \in TargetNames, obj \in ForeignSecrets : ExtPutTarget(n, obj)
  \/ \E n \in TargetNames : ExtDeleteSecret(n)

Next == Controller \/ DependencyChanges \/ TargetChanges

Spec == Init /\ [][Next]_allVars

\* ---- the controller under fair scheduling -------------------------------

SourceKeys == {Key(n) : n \in SourceNames}

\* The target name is free or holds a Secret nobody controls.
InitLive == InitWith({NilObj, UnownedSecret})

HandleKind(kind) ==
  \E i \in 1..Len(events) : events[i].kind = kind /\ HandleEvent(i)

NextLive == Controller \/ DependencyChanges

\* ReconcileSync(k) is enabled exactly when pc[k] = "sync", and it is the only
\* step that takes pc[k] from "sync" to "cleanup": the return of sync.
SyncReturns(k) == pc[k] = "sync" /\ pc' = [pc EXCEPT ![k] = "cleanup"]

\* A worker takes every queued key and runs its reconcile to the end (a call of
\* sync returns); each informer delivers every event it holds.
Fairness ==
  /\ \A k \in SourceKeys :
       /\ WF_allVars(ReconcileStart(k))
       /\ WF_pc(SyncReturns(k))
       /\ WF_allVars(ReconcileCleanup(k))
  /\ WF_allVars(HandleKind("Secret"))
  /\ WF_allVars(HandleKind("ConfigMap"))

SpecLive == InitLive /\ [][NextLive]_allVars /\ Fairness

\* The same with any Secret under the target name, one that another object
\* controls included.
SpecLiveAnyTarget == Init /\ [][NextLive]_allVars /\ Fairness

\* ---- the controller under a clock that advances --------------------------

\* The latest reading of the clock.
MaxTime == 2

\* The clock advances. Only sync reads it (metav1.Now() in
\* NewConfigMapSecretCondition), so an advance counts when a sync is about to
\* run; readings are whole seconds, and two syncs may get the same one.
Tick ==
  /\ now < MaxTime
  /\ \E k \in DOMAIN pc : pc[k] = "sync"
  /\ now' = now + 1
  /\ UNCHANGED <<apiCMS, apiSecrets, apiConfigMaps, secrets, configMaps, owned,
                 queue, events, pc, rc, changes>>

NextClock == Controller \/ DependencyChanges \/ Tick

SpecClock == InitLive /\ [][NextClock]_allVars

\* ---- the controller left alone -------------------------------------------

\* Nobody but the controller writes, and time passes: after the first
\* reconcile of a source, every further one finds the source, its
\* dependencies and its target as the previous one left them.
NextQuiet == Controller \/ Tick

SpecQuiet == Init /\ [][NextQuiet]_allVars

\* The same under fair scheduling: every queued key is reconciled to the end
\* and every event is delivered.
SpecStill == Init /\ [][NextQuiet]_allVars /\ Fairness

\* ---- the controller when calls of the API server fail ---------------------

\* an error of the API server other than NotFound and Conflict
ApiError == [kind |-> "ApiError", msg |-> <<"InternalError">>]

\* The call of sync that fails: the first Get of the resolver, the Get of the
\* target Secret, its Create or its Update.
Faults == {"resolve", "get", "create", "update"}

\* a failing sync that records the generation as observed
syncFailedObserved(cms, r, err) ==
  [verb |-> "none", name |-> r.name, secret |-> NilObj,
   statusUpdate |-> TRUE,
   status |-> [cms.status EXCEPT !.observedGeneration = cms.generation],
   err |-> err, requeue |-> FALSE]

\* sync returning err before the target is written and with no status write
syncFailed(cms, r, err) ==
  [verb |-> "none", name |-> r.name, secret |-> NilObj,
   statusUpdate |-> FALSE, status |-> cms.status, err |-> err, requeue |-> FALSE]

\* the fault can happen: sync, given what renderSecret returns without the
\* fault (r) and what setOwner returns (so), reaches the call that fails
FaultApplies(cms, cl, fault, r, so) ==
  CASE fault = "resolve" ->
         varRefs(cms.spec.varsFrom, cms.spec.vars).secrets
           \cup varRefs(cms.spec.varsFrom, cms.spec.vars).configMaps # {}
    [] fault = "get" -> r.err = NoErr
    [] fault = "create" -> r.err = NoErr /\ ~cl.secrets[r.name].exists
    [] fault = "update" ->
         /\ r.err = NoErr /\ cl.secrets[r.name].exists /\ so.err = NoErr
         /\ (so.ownerChanged \/ shouldUpdate(so.secret, r.secret))

\* what sync does when the call named by fault fails with ApiError
syncFaulted(cms, conflict, t, fault, r) ==
  IF fault = "resolve"
    THEN syncRenderFailed(ApiError,
           syncRenderFailureStatus(cms, CreateVariablesErrorReason, ApiError.msg, t),
           conflict)
  ELSE syncFailed(cms, r, ApiError)

ApplySyncFault(k, cms, cl, fault, r) ==
  /\ FaultApplies(cms, cl, fault, r,
       IF r.err = NoErr /\ cl.secrets[r.name].exists
         THEN setOwner(cms, cl.secrets[r.name])
         ELSE [ownerChanged |-> FALSE, err |-> NoErr, secret |-> NilObj,
               cmsOwnerReferences |-> <<>>])
  /\ ApplySync(k, cms, syncFaulted(cms, apiCMS[k] # cms, now, fault, r))

ReconcileSyncFault(k, fault) ==
  /\ pc[k] = "sync"
  /\ ApplySyncFault(k, rc[k].cms, Cluster, fault, renderSecret(rc[k].cms, Cluster))
  /\ pc' = [pc EXCEPT ![k] = "cleanup"]
  /\ UNCHANGED <<apiConfigMaps, secrets, configMaps, owned, changes, now>>

\* the error of a Get or Delete of cleanup that fails
CleanupError == [kind |-> "ApiError", msg |-> <<"CleanupFailed">>]

\* The call of cleanup that fails at its first Get or Delete: nothing is
\* deleted and Reconcile returns an error, that of sync if there is one.
ReconcileCleanupFault(k) ==
  /\ pc[k] = "cleanup"
  /\ cleanup(rc[k].cms, owned, Cluster.secrets) # {}
  /\ ReconcileReturn(k, ReconcileResult(rc[k].err, rc[k].requeue, CleanupError))
  /\ UNCHANGED <<apiCMS, apiSecrets, apiConfigMaps, secrets, configMaps, owned,
                 events, changes, now>>

ApiFaults ==
  \/ \E k \in DOMAIN pc, fault \in Faults : ReconcileSyncFault(k, fault)
  \/ \E k \in DOMAIN pc : ReconcileCleanupFault(k)

NextFaults == Controller \/ DependencyChanges \/ ApiFaults

SpecFaults == Init /\ [][NextFaults]_allVars

\* ---- the resolver over many specs ---------------------------------------

\* The longest varsFrom list and the longest vars list of a drawn spec.
MaxEntries == 2

FromChoices ==
  {[prefix |-> <<>>, secretRef |-> ObjRef("d1", TRUE), configMapRef |-> NoRef],
   [prefix |-> <<>>, secretRef |-> NoRef, configMapRef |-> ObjRef("c1", TRUE)],
   [prefix |-> <<"P">>, secretRef |-> NoRef, configMapRef |-> ObjRef("c1", FALSE)]}

VarChoices ==
  {[name |-> <<"A">>, value |-> <<"x">>, secretValue |-> NoSel, configMapValue |-> NoSel],
   [name |-> <<"A">>, value |-> <<>>, secretValue |-> SecretKey("d1", <<"a">>, TRUE),
    configMapValue |-> NoSel],
   [name |-> <<"B">>, value |-> <<>>, secretValue |-> NoSel,
    configMapValue |-> SecretKey("c1", <<"A">>, TRUE)],
   [name |-> <<"A">>, value |-> <<>>, secretValue |-> SecretKey("d1", <<"a">>, FALSE),
    configMapValue |-> NoSel],
   [name |-> <<"B">>, value |-> <<"$", "(", "A", ")">>, secretValue |-> NoSel,
    configMapValue |-> NoSel]}

SeqsUpTo(S, n) == UNION {[1..m -> S] : m \in 0..n}

ResolverSpec(varsFrom, vars) ==
  [template |-> [metadata |-> [name |-> "", labels |-> EmptyMap,
                               annotations |-> EmptyMap],
                 data |-> (<<"k">> :> <<"$", "(", "A", ")", "$", "(", "B", ")">>),
                 binaryData |-> (<<"b">> :> <<"$", "(", "P", "A", ")">>)],
   varsFrom |-> varsFrom, vars |-> vars]

ResolverSecretData ==
  {(<<"A">> :> <<"s">>) @@ (<<"a">> :> <<"v">>), (<<"b">> :> <<"w">>)}

\* A cluster with one source, whose spec lists up to MaxEntries varsFrom and
\* vars entries, and with or without the Secret and the ConfigMap they name.
InitResolve ==
  /\ \E varsFrom \in SeqsUpTo(FromChoices, MaxEntries),
        vars \in SeqsUpTo(VarChoices, MaxEntries) :
       apiCMS = [k \in SourceKeys |-> NewCMS(k[2], "u1", ResolverSpec(varsFrom, vars))]
  /\ \E d \in {NilObj} \cup {PlainSecret(x) : x \in ResolverSecretData} :
       apiSecrets = [k \in {Key(n) : n \in SecretNames} |->
                       IF k[2] \in DepSecretNames THEN d ELSE NilObj]
  /\ \E c \in {NilObj} \cup {[exists |-> TRUE, data |-> x, binaryData |-> EmptyMap] :
                               x \in ConfigMapData} :
       apiConfigMaps = [k \in {Key(n) : n \in ConfigMapNames} |-> c]
  /\ secrets = EmptyRefMap
  /\ configMaps = EmptyRefMap
  /\ owned = EmptyRefMap
  /\ queue = SourceKeys
  /\ events = <<>>
  /\ pc = [k \in SourceKeys |-> "idle"]
  /\ rc = [k \in SourceKeys |-> IdleLocals]
  /\ changes = 0
  /\ now = 0

SpecResolve == InitResolve /\ [][Controller]_allVars

\* ---- the resolver over invalid keys --------------------------------------

\* varsFrom entries over the Secret d1 and the ConfigMap c1, all optional,
\* without a prefix, with one that makes a name of a digit, with one that
\* makes no name
KeyFromChoices ==
  {[prefix |-> <<>>, secretRef |-> ObjRef("d1", TRUE), configMapRef |-> NoRef],
   [prefix |-> <<"P">>, secretRef |-> ObjRef("d1", TRUE), configMapRef |-> NoRef],
   [prefix |-> <<"1">>, secretRef |-> NoRef, configMapRef |-> ObjRef("c1", TRUE)],
   [prefix |-> <<>>, secretRef |-> NoRef, configMapRef |-> ObjRef("c1", TRUE)]}

KeySpec(varsFrom) ==
  [template |-> [metadata |-> [name |-> "", labels |-> EmptyMap,
                               annotations |-> EmptyMap],
                 data |-> (<<"k">> :> <<"$", "(", "A", ")", "$", "(", "P", "1", ")">>),
                 binaryData |-> EmptyMap],
   varsFrom |-> varsFrom, vars |-> <<>>]

\* data with keys that are names and keys that are not
KeySecretData ==
  {(<<"A">> :> <<"s">>) @@ (<<"1">> :> <<"t">>) @@ (<<"2">> :> <<"u">>),
   (<<"A">> :> <<"s">>) @@ (<<"_">> :> <<"v">>)}

KeyConfigMaps ==
  {[exists |-> TRUE, data |-> (<<"A">> :> <<"c">>) @@ (<<"2">> :> <<"x">>),
    binaryData |-> (<<"1">> :> <<"y">>)],
   [exists |-> TRUE, data |-> (<<"B">> :> <<"b">>), binaryData |-> EmptyMap]}

InitKeys ==
  /\ \E varsFrom \in SeqsUpTo(KeyFromChoices, MaxEntries) :
       apiCMS = [k \in SourceKeys |-> NewCMS(k[2], "u1", KeySpec(varsFrom))]
  /\ \E d \in {NilObj} \cup {PlainSecret(x) : x \in KeySecretData} :
       apiSecrets = [k \in {Key(n) : n \in SecretNames} |->
                       IF k[2] \in DepSecretNames THEN d ELSE NilObj]
  /\ \E c \in {NilObj} \cup KeyConfigMaps :
       apiConfigMaps = [k \in {Key(n) : n \in ConfigMapNames} |-> c]
  /\ secrets = EmptyRefMap
  /\ configMaps = EmptyRefMap
  /\ owned = EmptyRefMap
  /\ queue = SourceKeys
  /\ events = <<>>
  /\ pc = [k \in SourceKeys |-> "idle"]
  /\ rc = [k \in SourceKeys |-> IdleLocals]
  /\ changes = 0
  /\ now = 0

SpecKeys == InitKeys /\ [][Controller]_allVars

\* ---- two sources, one of them deleted -----------------------------------

PairNames == {"s1", "s2"}

PairKeys == {Key(n) : n \in PairNames}

PairUID == ("s1" :> "u1") @@ ("s2" :> "u2")

\* the source s2: the target t2, $(A) from an optional key of Secret d1 over
\* the optional ConfigMap c1 and over the keys of its own target
SpecShared ==
  [template |-> [metadata |-> [name |-> "t2", labels |-> EmptyMap,
                               annotations |-> EmptyMap],
                 data |-> (<<"k">> :> <<"$", "(", "A", ")">>),
                 binaryData |-> EmptyMap],
   varsFrom |-> <<[prefix |-> <<>>, secretRef |-> NoRef,
                   configMapRef |-> ObjRef("c1", TRUE)],
                  [prefix |-> <<"P">>, secretRef |-> ObjRef("t2", TRUE),
                   configMapRef |-> NoRef]>>,
   vars |-> <<[name |-> <<"A">>, value |-> <<>>,
               secretValue |-> SecretKey("d1", <<"a">>, TRUE),
               configMapValue |-> NoSel]>>]

\* a Secret whose controller is a ConfigMapSecret of another API group
OtherGroupSecret ==
  [exists |-> TRUE, labels |-> EmptyMap, annotations |-> EmptyMap,
   data |-> EmptyMap, type |-> SecretTypeOpaque,
   ownerReferences |-> <<[apiVersion |-> <<"other.io", "v1">>, kind |-> "ConfigMapSecret",
                          name |-> "s1", uid |-> "u-other", controller |-> TRUE,
                          blockOwnerDeletion |-> TRUE]>>]

\* the Secret t2 as the source s1 left it when t2 was the name of its target
LeftoverSecret ==
  [exists |-> TRUE, labels |-> EmptyMap, annotations |-> EmptyMap,
   data |-> (<<"k">> :> <<"x">>), type |-> SecretTypeOpaque,
   ownerReferences |-> <<[apiVersion |-> GroupVersion, kind |-> "ConfigMapSecret",
                          name |-> "s1", uid |-> "u1", controller |-> TRUE,
                          blockOwnerDeletion |-> TRUE]>>]

\* What the reconcile of the source s3 of the namespace ns2, which refers to
\* a Secret d1, a Secret t2 and a ConfigMap c1 of its namespace, has left in
\* the index, and the events of its target s3 and of a Secret t2 of ns2 whose
\* controller reference bears the UID u1 in the owned map.
OtherNamespaceRows ==
  [secrets |-> refMapSet(EmptyRefMap, "ns2", "s3", {"d1", "t2"}),
   configMaps |-> refMapSet(EmptyRefMap, "ns2", "s3", {"c1"}),
   owned |-> refMapSet(refMapSet(EmptyRefMap, "ns2", "s3", {"u3"}), "ns2", "t2", {"u1"})]

\* The controller has reconciled the source s3 of the namespace ns2, where
\* nothing happens any more, and comes to the namespace ns: it holds the two
\* sources, the Secret d1 and the ConfigMap c1, possibly a Secret of others
\* under the name s1 and possibly, under the name t2, the target of an
\* earlier spec of s1.
InitPair ==
  /\ \E sp \in SpecChoices :
       apiCMS = [k \in PairKeys |->
                   NewCMS(k[2], PairUID[k[2]], IF k[2] = "s1" THEN sp ELSE SpecShared)]
  /\ \E t \in {NilObj, OtherGroupSecret} \cup ForeignSecrets, l \in {NilObj, LeftoverSecret} :
       apiSecrets = [k \in {Key(n) : n \in SecretNames} |->
                       IF k[2] \in DepSecretNames THEN PlainSecret(<<"a">> :> <<"v">>)
                       ELSE IF k[2] = "s1" THEN t ELSE l]
  /\ apiConfigMaps = [k \in {Key(n) : n \in ConfigMapNames} |->
                        [exists |-> TRUE, data |-> (<<"A">> :> <<"c">>),
                         binaryData |-> EmptyMap]]
  /\ secrets = OtherNamespaceRows.secrets
  /\ configMaps = OtherNamespaceRows.configMaps
  /\ owned = OtherNamespaceRows.owned
  /\ queue = PairKeys
  /\ events = InitialEvents
            \o (IF apiSecrets[Key("t2")].exists
                  THEN <<SecretEvent("t2", apiSecrets[Key("t2")], FALSE)>> ELSE <<>>)
  /\ pc = [k \in PairKeys |-> "idle"]
  /\ rc = [k \in PairKeys |-> IdleLocals]
  /\ changes = 0
  /\ now = 0

\* someone deletes a source; the watch of For(&v1alpha1.ConfigMapSecret{})
\* puts its key on the queue
ExtDeleteCMS(k) ==
  /\ apiCMS[k].exists
  /\ apiCMS' = [apiCMS EXCEPT ![k] = NilObj]
  /\ queue' = cmsEventHandler(queue, apiCMS[k])
  /\ UNCHANGED <<apiSecrets, apiConfigMaps, secrets, configMaps, owned, events, pc, rc,
                 changes, now>>

NextPair == Controller \/ \E k \in DOMAIN apiCMS : ExtDeleteCMS(k)

SpecPair == InitPair /\ [][NextPair]_allVars

\* ---- the reference index on its own --------------------------------------

\* two namespaces with sources and destinations of the same names; s1 is the
\* name of a source and of a Secret
RefNamespaces == {"ns", "ns2"}

RefSrcs == {"s1", "s2"}

RefDsts == {"d1", "s1"}

\* The zero value of refMap in r.secrets; nothing else is there.
InitRefMap ==
  /\ secrets = EmptyRefMap
  /\ configMaps = EmptyRefMap
  /\ owned = EmptyRefMap
  /\ apiCMS = EmptyMap
  /\ apiSecrets = EmptyMap
  /\ apiConfigMaps = EmptyMap
  /\ queue = {}
  /\ events = <<>>
  /\ pc = EmptyMap
  /\ rc = EmptyMap
  /\ changes = 0
  /\ now = 0

RefMapFrame ==
  UNCHANGED <<apiCMS, apiSecrets, apiConfigMaps, configMaps, owned, queue, events, pc,
              rc, changes, now>>

\* r.secrets.set(namespace, src, dsts)
CallSet(namespace, src, dsts) ==
  /\ secrets' = refMapSet(secrets, namespace, src, dsts)
  /\ RefMapFrame

\* r.secrets.add(namespace, src, dst)
CallAdd(namespace, src, dst) ==
  /\ secrets' = refMapAdd(secrets, namespace, src, dst)
  /\ RefMapFrame

\* r.secrets.rem(namespace, src, dst)
CallRem(namespace, src, dst) ==
  /\ secrets' = refMapRem(secrets, namespace, src, dst)
  /\ RefMapFrame

NextRefMap ==
  \/ \E namespace \in RefNamespaces, src \in RefSrcs, dsts \in SUBSET RefDsts :
       CallSet(namespace, src, dsts)
  \/ \E namespace \in RefNamespaces, src \in RefSrcs, dst \in RefDsts :
       CallAdd(namespace, src, dst)
  \/ \E namespace \in RefNamespaces, src \in RefSrcs, dst \in RefDsts :
       CallRem(namespace, src, dst)

SpecRefMap == InitRefMap /\ [][NextRefMap]_allVars

\* ---- the expansion of many templates ------------------------------------

\* The longest text before and after the escape or the reference of a drawn
\* template value.
MaxAffix == 2

ExpandAlphabet == {"$", "(", ")", "A"}

Escaped == <<"$", "$", "(", "A", ")">>

Reference == <<"$", "(", "A", ")">>

ExpandTexts ==
  {u \o mid \o w : u \in SeqsUpTo(ExpandAlphabet, MaxAffix),
                    mid \in {Escaped, Reference},
                    w \in SeqsUpTo(ExpandAlphabet, MaxAffix)}

\* A is never defined, is a literal, or comes from an optional key of Secret d1
BindingChoices ==
  {<<>>,
   <<[name |-> <<"A">>, value |-> <<"v">>, secretValue |-> NoSel,
      configMapValue |-> NoSel]>>,
   <<[name |-> <<"A">>, value |-> <<>>, secretValue |-> SecretKey("d1", <<"a">>, TRUE),
      configMapValue |-> NoSel]>>}

\* text as a data value, as a binaryData value and as the value of the
\* literal variable B, which the data value under l shows
ExpandSpec(text, binding) ==
  [template |-> [metadata |-> [name |-> "", labels |-> EmptyMap,
                               annotations |-> EmptyMap],
                 data |-> (<<"k">> :> text) @@ (<<"l">> :> <<"$", "(", "B", ")">>),
                 binaryData |-> (<<"b">> :> text)],
   varsFrom |-> <<>>,
   vars |-> binding \o <<[name |-> <<"B">>, value |-> text, secretValue |-> NoSel,
                          configMapValue |-> NoSel]>>]

\* A cluster with one source whose template holds a drawn text, with or
\* without the Secret d1.
InitExpand ==
  /\ \E text \in ExpandTexts, binding \in BindingChoices :
       apiCMS = [k \in SourceKeys |-> NewCMS(k[2], "u1", ExpandSpec(text, binding))]
  /\ \E d \in {NilObj, PlainSecret(<<"a">> :> <<"w">>)} :
       apiSecrets = [k \in {Key(n) : n \in SecretNames} |->
                       IF k[2] \in DepSecretNames THEN d ELSE NilObj]
  /\ apiConfigMaps = [k \in {Key(n) : n \in ConfigMapNames} |-> NilObj]
  /\ secrets = EmptyRefMap
  /\ configMaps = EmptyRefMap
  /\ owned = EmptyRefMap
  /\ queue = SourceKeys
  /\ events = <<>>
  /\ pc = [k \in SourceKeys |-> "idle"]
  /\ rc = [k \in SourceKeys |-> IdleLocals]
  /\ changes = 0
  /\ now = 0

SpecExpand == InitExpand /\ [][Controller]_allVars

\* ------------------------------------------------------------------------
\* Properties of one reconcile
\* ------------------------------------------------------------------------

\* the step of the reconcile of k in which sync runs
SyncStep(k) == pc[k] = "sync" /\ pc'[k] = "cleanup"

\* sync returned no error and asked for no requeue
SyncSucceeded(k) == rc'[k].err = NoErr /\ ~rc'[k].requeue

TargetKey(cms) == <<cms.namespace, TargetName(cms)>>

\* the data the template of cms expands to against the cluster cl
Expansion(cms, cl) == RenderData(cms.spec.template, makeVariables(cms, cl).vars)

Resolves(cms, cl) == makeVariables(cms, cl).err = NoErr

RenderFailureIs(status, value) ==
  /\ HasConfigMapSecretCondition(status, ConfigMapSecretRenderFailure)
  /\ GetConfigMapSecretCondition(status, ConfigMapSecretRenderFailure).status = value

\* a reference the resolver reads whose object or key is not there
MissingSecretKey(cl, sel) ==
  sel.set /\ (~cl.secrets[sel.name].exists \/ sel.key \notin DOMAIN cl.secrets[sel.name].data)

MissingConfigMapKey(cl, sel) ==
  /\ sel.set
  /\ \/ ~cl.configMaps[sel.name].exists
     \/ sel.key \notin DOMAIN cl.configMaps[sel.name].data
                       \cup DOMAIN cl.configMaps[sel.name].binaryData

MissingFrom(cl, v) ==
  IF v.secretRef.set THEN ~cl.secrets[v.secretRef.name].exists
  ELSE v.configMapRef.set /\ ~cl.configMaps[v.configMapRef.name].exists

FromOptional(v) == IF v.secretRef.set THEN v.secretRef.optional ELSE v.configMapRef.optional

MissingVar(cl, v) ==
  /\ v.value = <<>>
  /\ IF v.secretValue.set THEN MissingSecretKey(cl, v.secretValue)
     ELSE MissingConfigMapKey(cl, v.configMapValue)

VarOptional(v) ==
  IF v.secretValue.set THEN v.secretValue.optional ELSE v.configMapValue.optional

\* some non-optional reference of cms is absent or lacks its key
RequiredMissing(cms, cl) ==
  \/ \E i \in DOMAIN cms.spec.varsFrom :
       MissingFrom(cl, cms.spec.varsFrom[i]) /\ ~FromOptional(cms.spec.varsFrom[i])
  \/ \E i \in DOMAIN cms.spec.vars :
       MissingVar(cl, cms.spec.vars[i]) /\ ~VarOptional(cms.spec.vars[i])

\* C2: after every reconcile whose sync succeeds the target Secret carries
\* exactly one owner reference with controller=true, and its UID is the source's.
C2_OneControllerOwner ==
  [][\A k \in DOMAIN pc :
       SyncStep(k) /\ SyncSucceeded(k) =>
         /\ apiSecrets'[TargetKey(rc[k].cms)].exists
         /\ Cardinality(ControllerIndexes(
              apiSecrets'[TargetKey(rc[k].cms)].ownerReferences)) = 1
         /\ \A i \in ControllerIndexes(apiSecrets'[TargetKey(rc[k].cms)].ownerReferences) :
              apiSecrets'[TargetKey(rc[k].cms)].ownerReferences[i].uid = rc[k].cms.uid]_allVars

\* the target Secret exists, has no controller owner, and the source resolves
TakeoverCase(k) ==
  /\ Resolves(rc[k].cms, Cluster)
  /\ apiSecrets[TargetKey(rc[k].cms)].exists
  /\ ControllerIndexes(apiSecrets[TargetKey(rc[k].cms)].ownerReferences) = {}

\* C3: when the target Secret pre-exists with no controller owner, the reconcile
\* appends the source's controller reference to the Secret's own owner list,
\* keeping the references that were there, and in the same update sets labels,
\* annotations, data and type to the rendered ones.
C3_Takeover ==
  [][\A k \in DOMAIN pc :
       SyncStep(k) /\ TakeoverCase(k) =>
         apiSecrets'[TargetKey(rc[k].cms)] =
           [Overwritten(apiSecrets[TargetKey(rc[k].cms)],
                        renderSecret(rc[k].cms, Cluster).secret)
              EXCEPT !.ownerReferences =
                       Append(apiSecrets[TargetKey(rc[k].cms)].ownerReferences,
                              NewControllerRef(rc[k].cms))]]_allVars

\* the target Secret exists under a controller owner other than the source
ForeignController(k) ==
  /\ apiSecrets[TargetKey(rc[k].cms)].exists
  /\ \E i \in ControllerIndexes(apiSecrets[TargetKey(rc[k].cms)].ownerReferences) :
       apiSecrets[TargetKey(rc[k].cms)].ownerReferences[i].uid # rc[k].cms.uid

\* what the claim C4 promises of a sync step
ConflictOutcome(k) ==
  /\ rc'[k].err.kind = "AlreadyOwned"
  /\ apiSecrets' = apiSecrets
  /\ apiCMS' = apiCMS

\* C4 as stated: whenever the target Secret has a controller owner with another
\* UID, the reconcile returns an error, updates no Secret and writes no status.
C4_ConflictAlways ==
  [][\A k \in DOMAIN pc : SyncStep(k) /\ ForeignController(k) => ConflictOutcome(k)]_allVars

\* C4: when the variables of the source resolve and the target Secret has a
\* controller owner with another UID, the reconcile returns the already-owned
\* error, leaves every Secret as it was and writes no status.
C4_OwnershipConflict ==
  [][\A k \in DOMAIN pc :
       SyncStep(k) /\ ForeignController(k) /\ Resolves(rc[k].cms, Cluster) =>
         ConflictOutcome(k)]_allVars

\* C5: when a non-optional reference is absent or lacks its key the reconcile
\* creates and updates no Secret, and the status it writes (the write is
\* accepted unless the source changed meanwhile) holds RenderFailure=True with
\* reason CreateVariablesError and the error text as message.
C5_RenderFailure ==
  [][\A k \in DOMAIN pc :
       SyncStep(k) /\ RequiredMissing(rc[k].cms, Cluster) =>
         /\ apiSecrets' = apiSecrets
         /\ apiCMS[k] = rc[k].cms =>
              /\ RenderFailureIs(apiCMS'[k].status, ConditionTrue)
              /\ GetConfigMapSecretCondition(apiCMS'[k].status,
                                             ConfigMapSecretRenderFailure).reason
                   = CreateVariablesErrorReason
              /\ GetConfigMapSecretCondition(apiCMS'[k].status,
                                             ConfigMapSecretRenderFailure).message
                   = makeVariables(rc[k].cms, Cluster).err.msg
              /\ makeVariables(rc[k].cms, Cluster).err.msg # <<>>]_allVars

\* C9: after a reconcile whose sync succeeds the Secret under the template's
\* name (the source's name when the template has none) has type Opaque, the
\* labels and annotations of the template and the expansion of every data and
\* binaryData value; keys the template does not have are gone.
C9_RenderedTarget ==
  [][\A k \in DOMAIN pc :
       SyncStep(k) /\ SyncSucceeded(k) =>
         /\ apiSecrets'[TargetKey(rc[k].cms)].exists
         /\ apiSecrets'[TargetKey(rc[k].cms)].type = SecretTypeOpaque
         /\ apiSecrets'[TargetKey(rc[k].cms)].labels = rc[k].cms.spec.template.metadata.labels
         /\ apiSecrets'[TargetKey(rc[k].cms)].annotations
              = rc[k].cms.spec.template.metadata.annotations
         /\ apiSecrets'[TargetKey(rc[k].cms)].data = Expansion(rc[k].cms, Cluster)
         /\ DOMAIN apiSecrets'[TargetKey(rc[k].cms)].data
              = DOMAIN rc[k].cms.spec.template.data
                \cup DOMAIN rc[k].cms.spec.template.binaryData]_allVars

ObservedCurrent(cms) == cms.status.observedGeneration = cms.generation

TargetExpanded(k) ==
  /\ apiSecrets'[TargetKey(rc[k].cms)].exists
  /\ apiSecrets'[TargetKey(rc[k].cms)].data = Expansion(rc[k].cms, Cluster)

\* C10 as stated: after every reconcile that leaves observedGeneration equal to
\* the generation, the data of the target Secret is the expansion of the template.
C10_ObservedImpliesRendered ==
  [][\A k \in DOMAIN pc :
       SyncStep(k) /\ ObservedCurrent(apiCMS'[k]) => TargetExpanded(k)]_allVars

\* C10: after every reconcile that returns no error and leaves
\* observedGeneration equal to the generation with RenderFailure=False, the data
\* of the target Secret is the expansion of the template.
C10_ObservedAndRendered ==
  [][\A k \in DOMAIN pc :
       /\ SyncStep(k)
       /\ rc'[k].err = NoErr
       /\ ObservedCurrent(apiCMS'[k])
       /\ RenderFailureIs(apiCMS'[k].status, ConditionFalse)
       => TargetExpanded(k)]_allVars

\* ---- states in which the cases above have happened ----------------------

ReconciledKey == Key("s1")

AfterSync == pc[ReconciledKey] = "cleanup"

\* a sync has just refused a target Secret that another controller owns
C4_Witness ==
  /\ AfterSync
  /\ rc[ReconciledKey].err.kind = "AlreadyOwned"
  /\ Resolves(rc[ReconciledKey].cms, Cluster)
  /\ apiSecrets[TargetKey(rc[ReconciledKey].cms)].exists
  /\ ControllerIndexes(apiSecrets[TargetKey(rc[ReconciledKey].cms)].ownerReferences) # {}
  /\ apiCMS[ReconciledKey].status.conditions = <<>>

\* a sync has just failed to render while the target Secret it made earlier
\* still holds its content
C5_Witness ==
  /\ AfterSync
  /\ RequiredMissing(rc[ReconciledKey].cms, Cluster)
  /\ rc[ReconciledKey].requeue
  /\ RenderFailureIs(apiCMS[ReconciledKey].status, ConditionTrue)
  /\ apiSecrets[TargetKey(rc[ReconciledKey].cms)].exists
  /\ apiSecrets[TargetKey(rc[ReconciledKey].cms)].data # EmptyMap

\* a sync has just overwritten a Secret of others: their owner reference is
\* still there, their label, type and data are not
C9_Witness ==
  /\ AfterSync
  /\ rc[ReconciledKey].err = NoErr /\ ~rc[ReconciledKey].requeue
  /\ apiSecrets[TargetKey(rc[ReconciledKey].cms)].exists
  /\ OtherRef \in Range(apiSecrets[TargetKey(rc[ReconciledKey].cms)].ownerReferences)
  /\ apiSecrets[TargetKey(rc[ReconciledKey].cms)].type = SecretTypeOpaque
  /\ <<"c">> \notin DOMAIN apiSecrets[TargetKey(rc[ReconciledKey].cms)].data
  /\ "app" \notin DOMAIN apiSecrets[TargetKey(rc[ReconciledKey].cms)].labels

\* a sync has just brought the status up to the second generation of the source
C10_Witness ==
  /\ AfterSync
  /\ rc[ReconciledKey].err = NoErr
  /\ apiCMS[ReconciledKey].generation = 2
  /\ ObservedCurrent(apiCMS[ReconciledKey])
  /\ RenderFailureIs(apiCMS[ReconciledKey].status, ConditionFalse)
  /\ apiSecrets[TargetKey(rc[ReconciledKey].cms)].exists

\* ------------------------------------------------------------------------
\* Convergence
\* ------------------------------------------------------------------------

\* the target Secret of k holds the expansion of the template under the
\* dependencies as they are now
TargetCurrent(k) ==
  /\ apiSecrets[TargetKey(apiCMS[k])].exists
  /\ apiSecrets[TargetKey(apiCMS[k])].data = Expansion(apiCMS[k], Cluster)

Converged ==
  \A k \in SourceKeys :
    apiCMS[k].exists /\ Resolves(apiCMS[k], Cluster) => TargetCurrent(k)

Quiescent ==
  /\ queue = {}
  /\ events = <<>>
  /\ \A k \in SourceKeys : pc[k] = "idle"

Recoverable(k) ==
  /\ apiCMS[k].exists
  /\ RenderFailureIs(apiCMS[k].status, ConditionTrue)
  /\ Resolves(apiCMS[k], Cluster)
  /\ changes = MaxChanges

Recovered(k) ==
  /\ TargetCurrent(k)
  /\ RenderFailureIs(apiCMS[k].status, ConditionFalse)

\* C6: when the source has RenderFailure=True and the dependency it missed has
\* been created with the key, and nothing else changes, the source is
\* reconciled again and eventually the target Secret exists with the rendered
\* data and the condition is RenderFailure=False.
C6_Recovery == \A k \in SourceKeys : Recoverable(k) ~> Recovered(k)

\* the required Secret d1 has appeared after a failed render, and the next
\* reconcile is under way
C6_Witness ==
  /\ Recoverable(ReconciledKey)
  /\ apiCMS[ReconciledKey].spec = SpecRequired
  /\ apiCMS[ReconciledKey].generation = 1
  /\ pc[ReconciledKey] = "sync"
  /\ rc[ReconciledKey].cms = apiCMS[ReconciledKey]

\* ------------------------------------------------------------------------
\* The resolved environment
\* ------------------------------------------------------------------------

OptionalMissingFrom(cl, v) == MissingFrom(cl, v) /\ FromOptional(v)

OptionalMissingVar(cl, v) == MissingVar(cl, v) /\ VarOptional(v)

HasOptionalMissing(cms, cl) ==
  \/ \E i \in DOMAIN cms.spec.varsFrom : OptionalMissingFrom(cl, cms.spec.varsFrom[i])
  \/ \E i \in DOMAIN cms.spec.vars : OptionalMissingVar(cl, cms.spec.vars[i])

\* cms without the optional entries whose object or key is not there
WithoutOptionalMissing(cms, cl) ==
  [cms EXCEPT
     !.spec.varsFrom = SelectSeq(@, LAMBDA v : ~OptionalMissingFrom(cl, v)),
     !.spec.vars = SelectSeq(@, LAMBDA v : ~OptionalMissingVar(cl, v))]

\* C7: an optional varsFrom entry whose object is absent, and an optional var
\* whose object or key is absent, raise no error and bind nothing: the resolver
\* returns what it returns for the spec without them, so the other variables
\* resolve as before; when nothing required is missing the reconcile succeeds
\* with RenderFailure=False.
C7_OptionalMissing ==
  [][\A k \in DOMAIN pc :
       SyncStep(k) /\ HasOptionalMissing(rc[k].cms, Cluster) =>
         /\ makeVariables(rc[k].cms, Cluster)
              = makeVariables(WithoutOptionalMissing(rc[k].cms, Cluster), Cluster)
         /\ ~RequiredMissing(rc[k].cms, Cluster) =>
              /\ Resolves(rc[k].cms, Cluster)
              /\ SyncSucceeded(k)
              /\ RenderFailureIs(apiCMS'[k].status, ConditionFalse)]_allVars

\* a sync has just succeeded although the Secret of an optional var lacks the
\* key; the variable is unbound and another one is bound
C7_Witness ==
  /\ AfterSync
  /\ rc[ReconciledKey].err = NoErr /\ ~rc[ReconciledKey].requeue
  /\ \E i \in DOMAIN rc[ReconciledKey].cms.spec.vars :
       /\ OptionalMissingVar(Cluster, rc[ReconciledKey].cms.spec.vars[i])
       /\ rc[ReconciledKey].cms.spec.vars[i].secretValue.set
       /\ apiSecrets[Key(rc[ReconciledKey].cms.spec.vars[i].secretValue.name)].exists
       /\ rc[ReconciledKey].cms.spec.vars[i].name
            \notin DOMAIN makeVariables(rc[ReconciledKey].cms, Cluster).vars
  /\ \E i \in DOMAIN rc[ReconciledKey].cms.spec.varsFrom :
       OptionalMissingFrom(Cluster, rc[ReconciledKey].cms.spec.varsFrom[i])
  /\ makeVariables(rc[ReconciledKey].cms, Cluster).vars # EmptyMap
  /\ RenderFailureIs(apiCMS[ReconciledKey].status, ConditionFalse)

\* The sources of bindings from weakest to strongest: the varsFrom entries in
\* order, then the vars entries in order.
NumSources(cms) == Len(cms.spec.varsFrom) + Len(cms.spec.vars)

\* the bindings the varsFrom entry v supplies
FromBindings(cl, v) ==
  IF v.secretRef.set
    THEN IF cl.secrets[v.secretRef.name].exists
           THEN PrefixedValues(v.prefix, cl.secrets[v.secretRef.name].data)
           ELSE EmptyMap
  ELSE IF v.configMapRef.set /\ cl.configMaps[v.configMapRef.name].exists
    THEN MapMerge(PrefixedValues(v.prefix, cl.configMaps[v.configMapRef.name].data),
                  PrefixedValues(v.prefix, cl.configMaps[v.configMapRef.name].binaryData))
  ELSE EmptyMap

\* source number p binds the name x
Binds(cms, cl, p, x) ==
  IF p <= Len(cms.spec.varsFrom)
    THEN x \in DOMAIN FromBindings(cl, cms.spec.varsFrom[p])
  ELSE /\ cms.spec.vars[p - Len(cms.spec.varsFrom)].name = x
       /\ ~MissingVar(cl, cms.spec.vars[p - Len(cms.spec.varsFrom)])

Binders(cms, cl, n, x) == {p \in 1..n : Binds(cms, cl, p, x)}

BoundNames(cms, cl, n) ==
  UNION {DOMAIN FromBindings(cl, cms.spec.varsFrom[p]) :
           p \in 1..MinOf({n, Len(cms.spec.varsFrom)})}
  \cup {cms.spec.vars[i].name : i \in DOMAIN cms.spec.vars}

MaxOf(S) == CHOOSE x \in S : \A y \in S : y <= x

\* the value the vars entry v binds, env being what the weaker sources bind
VarBinding(cl, v, env) ==
  IF v.value # <<>> THEN Expand(v.value, env)
  ELSE IF v.secretValue.set THEN cl.secrets[v.secretValue.name].data[v.secretValue.key]
  ELSE IF v.configMapValue.set
    THEN MapMerge(cl.configMaps[v.configMapValue.name].binaryData,
                  cl.configMaps[v.configMapValue.name].data)[v.configMapValue.key]
  ELSE <<>>

\* the environment in which each name has the value of the strongest of the
\* first n sources that bind it
RECURSIVE StrongestUpTo(_, _, _)
StrongestUpTo(cms, cl, n) ==
  [x \in {y \in BoundNames(cms, cl, n) : Binders(cms, cl, n, y) # {}} |->
     IF MaxOf(Binders(cms, cl, n, x)) <= Len(cms.spec.varsFrom)
       THEN FromBindings(cl, cms.spec.varsFrom[MaxOf(Binders(cms, cl, n, x))])[x]
     ELSE VarBinding(cl,
            cms.spec.vars[MaxOf(Binders(cms, cl, n, x)) - Len(cms.spec.varsFrom)],
            StrongestUpTo(cms, cl, MaxOf(Binders(cms, cl, n, x)) - 1))]

Strongest(cms, cl) == StrongestUpTo(cms, cl, NumSources(cms))

\* C8: when several sources bind a name, the resolved environment holds the
\* value of the strongest one that is there, later varsFrom entries being
\* stronger than earlier ones, vars entries stronger than varsFrom entries and
\* later vars entries stronger than earlier ones; the target Secret is rendered
\* under that environment.
C8_Precedence ==
  [][\A k \in DOMAIN pc :
       SyncStep(k) /\ Resolves(rc[k].cms, Cluster) =>
         /\ makeVariables(rc[k].cms, Cluster).vars = Strongest(rc[k].cms, Cluster)
         /\ apiSecrets'[TargetKey(rc[k].cms)].data
              = RenderData(rc[k].cms.spec.template, Strongest(rc[k].cms, Cluster))]_allVars

\* a sync has just rendered a spec in which a varsFrom entry and a later vars
\* entry both bind A while a second, optional vars entry for A finds no Secret
C8_Witness ==
  /\ AfterSync
  /\ rc[ReconciledKey].err = NoErr /\ ~rc[ReconciledKey].requeue
  /\ Cardinality(Binders(rc[ReconciledKey].cms, Cluster,
                         NumSources(rc[ReconciledKey].cms), <<"A">>)) >= 2
  /\ \E i \in DOMAIN rc[ReconciledKey].cms.spec.vars :
       /\ rc[ReconciledKey].cms.spec.vars[i].name = <<"A">>
       /\ OptionalMissingVar(Cluster, rc[ReconciledKey].cms.spec.vars[i])
  /\ apiSecrets[TargetKey(rc[ReconciledKey].cms)].exists

\* ------------------------------------------------------------------------
\* The status
\* ------------------------------------------------------------------------

\* the status the reconcile of k read, and the one the server holds
ReadStatus(k) == rc[k].cms.status

\* C11: after a reconcile of an existing source that returns without error
\* (a full success, or a configuration error turned into a requeue), the
\* observedGeneration of the status equals the generation the reconcile read;
\* and every status write sets observedGeneration to that generation.
C11_ObservedGeneration ==
  [][\A k \in SourceKeys :
       SyncStep(k) =>
         /\ rc'[k].err = NoErr =>
              apiCMS'[k].status.observedGeneration = rc[k].cms.generation
         /\ apiCMS'[k].status # apiCMS[k].status =>
              apiCMS'[k].status.observedGeneration = rc[k].cms.generation]_allVars

\* a reconcile that read generation 2 has returned without error, by a requeue
\* after a configuration error, and moved observedGeneration from 1 to 2
C11_Witness ==
  /\ AfterSync
  /\ rc[ReconciledKey].err = NoErr
  /\ rc[ReconciledKey].requeue
  /\ rc[ReconciledKey].cms.generation = 2
  /\ ReadStatus(ReconciledKey).observedGeneration = 1
  /\ apiCMS[ReconciledKey].status.observedGeneration = 2

\* C13: whatever reconciles have run (successes, render failures and errors in
\* any order), the status holds at most one condition of a type, so at most
\* one element, and its type is RenderFailure.
C13_OneCondition ==
  \A k \in SourceKeys :
    /\ Len(apiCMS[k].status.conditions) <= 1
    /\ \A i \in DOMAIN apiCMS[k].status.conditions :
         apiCMS[k].status.conditions[i].type = ConfigMapSecretRenderFailure

\* a reconcile has replaced the condition it read by one of the other status
C13_Witness ==
  /\ AfterSync
  /\ Len(ReadStatus(ReconciledKey).conditions) = 1
  /\ Len(apiCMS[ReconciledKey].status.conditions) = 1
  /\ ReadStatus(ReconciledKey).conditions[1].status
       # apiCMS[ReconciledKey].status.conditions[1].status

\* C17: after a reconcile whose sync succeeds, the RenderFailure condition is
\* False with an empty reason and an empty message, whatever the condition
\* was before.
C17_SuccessCondition ==
  [][\A k \in SourceKeys :
       SyncStep(k) /\ SyncSucceeded(k) =>
         /\ RenderFailureIs(apiCMS'[k].status, ConditionFalse)
         /\ apiCMS'[k].status.conditions[1].reason = ""
         /\ apiCMS'[k].status.conditions[1].message = <<>>]_allVars

\* a sync has succeeded on a source whose condition was RenderFailure=True
\* with a reason and a message
C17_Witness ==
  /\ AfterSync
  /\ rc[ReconciledKey].err = NoErr
  /\ ~rc[ReconciledKey].requeue
  /\ RenderFailureIs(ReadStatus(ReconciledKey), ConditionTrue)
  /\ ReadStatus(ReconciledKey).conditions[1].reason = CreateVariablesErrorReason
  /\ ReadStatus(ReconciledKey).conditions[1].message # <<>>
  /\ RenderFailureIs(apiCMS[ReconciledKey].status, ConditionFalse)

\* the variables of the source resolve and its target Secret is controlled by
\* another object: sync returns the already-owned error before any status write
OwnedByAnother(k) ==
  /\ Resolves(apiCMS[k], Cluster)
  /\ apiSecrets[TargetKey(apiCMS[k])].exists
  /\ \E i \in ControllerIndexes(apiSecrets[TargetKey(apiCMS[k])].ownerReferences) :
       apiSecrets[TargetKey(apiCMS[k])].ownerReferences[i].uid # apiCMS[k].uid

\* C12 as stated: once the changes to a source and to its dependencies have
\* stopped, the status of every source that exists has, from some point on,
\* observedGeneration equal to the generation.
C12_StatusCurrent ==
  <>[](\A k \in SourceKeys : apiCMS[k].exists => ObservedCurrent(apiCMS[k]))

\* C12: once the changes to a source and to its dependencies have stopped, the
\* status of every source that exists has, from some point on,
\* observedGeneration equal to the generation, unless its variables resolve and
\* its target Secret is controlled by another object.
C12_StatusCurrentUnlessOwned ==
  <>[](\A k \in SourceKeys :
         apiCMS[k].exists /\ ~OwnedByAnother(k) => ObservedCurrent(apiCMS[k]))

\* the spec was changed, the changes have stopped, and the status has caught up
\* with generation 2
C12_Witness ==
  /\ Quiescent
  /\ changes = MaxChanges
  /\ apiCMS[ReconciledKey].generation = 2
  /\ ObservedCurrent(apiCMS[ReconciledKey])
  /\ ~OwnedByAnother(ReconciledKey)

\* ------------------------------------------------------------------------
\* The timestamps of the condition
\* ------------------------------------------------------------------------

HasCond(status) == HasConfigMapSecretCondition(status, ConfigMapSecretRenderFailure)

Cond(status) == GetConfigMapSecretCondition(status, ConfigMapSecretRenderFailure)

\* the condition after the step has another status than the one before, or is
\* the first one
Transition(old, new) ==
  HasCond(new) /\ (~HasCond(old) \/ Cond(old).status # Cond(new).status)

\* the status is the same and the reason or the message differs
Reworded(old, new) ==
  /\ HasCond(old) /\ HasCond(new)
  /\ Cond(old).status = Cond(new).status
  /\ <<Cond(old).reason, Cond(old).message>> # <<Cond(new).reason, Cond(new).message>>

\* C14: over the reconciles of a source, lastTransitionTime of the RenderFailure
\* condition never decreases; a reconcile that changes the status of the
\* condition (True to False, False to True, or the first condition) sets it to
\* the time of the reconcile, which is a change whenever the clock has moved
\* since the previous transition, and every other reconcile leaves it as it
\* was; a reconcile that changes only the reason or the message sets
\* lastUpdateTime to the time of the reconcile and keeps lastTransitionTime.
C14_TransitionTime ==
  [][\A k \in SourceKeys :
       SyncStep(k) /\ HasCond(apiCMS'[k].status) =>
         /\ HasCond(apiCMS[k].status) =>
              Cond(apiCMS'[k].status).lastTransitionTime
                >= Cond(apiCMS[k].status).lastTransitionTime
         /\ Transition(apiCMS[k].status, apiCMS'[k].status) =>
              /\ Cond(apiCMS'[k].status).lastTransitionTime = now
              /\ HasCond(apiCMS[k].status)
                   /\ now > Cond(apiCMS[k].status).lastTransitionTime =>
                   Cond(apiCMS'[k].status).lastTransitionTime
                     # Cond(apiCMS[k].status).lastTransitionTime
         /\ ~Transition(apiCMS[k].status, apiCMS'[k].status) =>
              Cond(apiCMS'[k].status).lastTransitionTime
                = Cond(apiCMS[k].status).lastTransitionTime
         /\ Reworded(apiCMS[k].status, apiCMS'[k].status) =>
              /\ Cond(apiCMS'[k].status).lastUpdateTime = now
              /\ Cond(apiCMS'[k].status).lastUpdateTime
                   >= Cond(apiCMS[k].status).lastUpdateTime
              /\ Cond(apiCMS'[k].status).lastTransitionTime
                   = Cond(apiCMS[k].status).lastTransitionTime]_allVars

\* a reconcile at a later time has changed only the message of the condition:
\* lastUpdateTime has advanced and lastTransitionTime is the one it read
C14_Witness ==
  /\ AfterSync
  /\ Reworded(ReadStatus(ReconciledKey), apiCMS[ReconciledKey].status)
  /\ Cond(apiCMS[ReconciledKey].status).lastUpdateTime
       > Cond(ReadStatus(ReconciledKey)).lastUpdateTime
  /\ Cond(apiCMS[ReconciledKey].status).lastTransitionTime
       = Cond(ReadStatus(ReconciledKey)).lastTransitionTime
  /\ Cond(apiCMS[ReconciledKey].status).lastTransitionTime
       < Cond(apiCMS[ReconciledKey].status).lastUpdateTime

\* ------------------------------------------------------------------------
\* Idempotence
\* ------------------------------------------------------------------------

\* what the sync of the reconcile of k is about to do
SyncOf(k) == sync(rc[k].cms, Cluster, apiCMS[k] # rc[k].cms, now)

CleanupStep(k) == pc[k] = "cleanup" /\ pc'[k] = "idle"

\* the reconcile of k follows one that wrote the status of this generation
AfterCompleted(k) == ObservedCurrent(rc[k].cms)

\* C15: when a reconcile of a source has completed and neither the source,
\* nor a dependency, nor the target Secret has changed since, the next
\* reconcile makes no write: sync creates and updates no Secret and does not
\* update the status, and cleanup deletes no Secret.
C15_Idempotent ==
  [][\A k \in SourceKeys :
       /\ SyncStep(k) /\ AfterCompleted(k) =>
            SyncOf(k).verb = "none" /\ ~SyncOf(k).statusUpdate
       /\ CleanupStep(k) /\ AfterCompleted(k) =>
            cleanup(rc[k].cms, owned, Cluster.secrets) = {}]_allVars

\* ------------------------------------------------------------------------
\* Renaming the target
\* ------------------------------------------------------------------------

\* the Secrets, other than the target of the source k, that the source controls
StaleOwned(k) ==
  {n \in SecretNames \ {TargetName(apiCMS[k])} :
     /\ apiSecrets[Key(n)].exists
     /\ getOwner(apiSecrets[Key(n)].ownerReferences).set
     /\ getOwner(apiSecrets[Key(n)].ownerReferences).uid = apiCMS[k].uid}

\* C16: when the target name of the template of a source changes, then once
\* the reconciles and the Secret events have settled, the Secret of the new
\* name exists with the rendered content (its variables resolving), and every
\* other Secret of the namespace that the source controls has been deleted.
C16_Rename ==
  <>[](\A k \in SourceKeys :
         apiCMS[k].exists =>
           /\ Resolves(apiCMS[k], Cluster) => TargetCurrent(k)
           /\ StaleOwned(k) = {})

\* the source was renamed from s1 to t2: t2 holds the rendered data and is
\* controlled by the source, and s1, which the source had created, has just
\* been deleted by cleanup
C16_Witness ==
  /\ apiCMS[ReconciledKey].spec = SpecRenamed
  /\ apiCMS[ReconciledKey].generation = 2
  /\ TargetCurrent(ReconciledKey)
  /\ getOwner(apiSecrets[Key("t2")].ownerReferences).uid = apiCMS[ReconciledKey].uid
  /\ ~apiSecrets[Key("s1")].exists
  /\ StaleOwned(ReconciledKey) = {}
  /\ \E i \in DOMAIN events :
       /\ events[i].kind = "Secret" /\ events[i].name = "s1" /\ events[i].deleted
       /\ getOwner(events[i].ownerReferences).uid = apiCMS[ReconciledKey].uid

\* ------------------------------------------------------------------------
\* What a reconcile returns
\* ------------------------------------------------------------------------

RECURSIVE ScanStarts(_, _)
ScanStarts(input, cursor) ==
  IF cursor > Len(input) THEN {}
  ELSE {cursor} \cup
       (IF input[cursor] = "$" /\ cursor + 1 <= Len(input)
          THEN ScanStarts(input,
                 cursor + tryReadVariableName(SubSeq(input, cursor + 1, Len(input))).advance
                   + 1)
          ELSE ScanStarts(input, cursor + 1))

\* the token tok stands in input at position i, where the scan reads it
TokenAt(input, tok, i) ==
  /\ i \in ScanStarts(input, 1)
  /\ i + Len(tok) - 1 <= Len(input)
  /\ SubSeq(input, i, i + Len(tok) - 1) = tok

\* input with the token of length n at position i rendered as shown and the
\* text on both sides of it expanded under vars
RenderedAround(input, i, n, shown, vars) ==
  Expand(SubSeq(input, 1, i - 1), vars) \o shown
    \o Expand(SubSeq(input, i + n, Len(input)), vars)

\* the three places of the spec of cms that hold the drawn text all show out
\* in the target Secret after the step
ShownEverywhere(k, out) ==
  /\ apiSecrets'[TargetKey(rc[k].cms)].exists
  /\ apiSecrets'[TargetKey(rc[k].cms)].data[<<"k">>] = out
  /\ apiSecrets'[TargetKey(rc[k].cms)].data[<<"b">>] = out
  /\ apiSecrets'[TargetKey(rc[k].cms)].data[<<"l">>] = out

TextOf(cms) == cms.spec.template.data[<<"k">>]

\* C19: in a data value, a binaryData value and the value of a literal
\* variable, an escape $$(A) that the scan reads is rendered as the text $(A)
\* and never replaced by a value, whether A is bound or not; the text before
\* and after it is expanded as usual.
C19_Escape ==
  [][\A k \in SourceKeys :
       SyncStep(k) =>
         \A i \in 1..Len(TextOf(rc[k].cms)) :
           TokenAt(TextOf(rc[k].cms), Escaped, i) =>
             ShownEverywhere(k,
               RenderedAround(TextOf(rc[k].cms), i, Len(Escaped), Reference,
                              makeVariables(rc[k].cms, Cluster).vars))]_allVars

\* the source binds A to "v" and its text starts with the escape: the target
\* holds $(A) where the escape stood
C19_Witness ==
  /\ AfterSync
  /\ rc[ReconciledKey].err = NoErr
  /\ <<"A">> \in DOMAIN makeVariables(rc[ReconciledKey].cms, Cluster).vars
  /\ TokenAt(TextOf(rc[ReconciledKey].cms), Escaped, 1)
  /\ Len(TextOf(rc[ReconciledKey].cms)) > Len(Escaped)
  /\ apiSecrets[TargetKey(rc[ReconciledKey].cms)].exists
  /\ SubSeq(apiSecrets[TargetKey(rc[ReconciledKey].cms)].data[<<"l">>], 1, 4) = Reference

\* C20: a reference $(A) that the scan reads in a template value, with A not
\* bound in the resolved environment (never defined, or skipped because its
\* optional source is missing), is left in the data of the target Secret as
\* it is written, and the reconcile succeeds.
C20_Unresolved ==
  [][\A k \in SourceKeys :
       SyncStep(k) /\ <<"A">> \notin DOMAIN makeVariables(rc[k].cms, Cluster).vars =>
         /\ SyncSucceeded(k)
         /\ \A i \in 1..Len(TextOf(rc[k].cms)) :
              TokenAt(TextOf(rc[k].cms), Reference, i) =>
                ShownEverywhere(k,
                  RenderedAround(TextOf(rc[k].cms), i, Len(Reference), Reference,
                                 makeVariables(rc[k].cms, Cluster).vars))]_allVars

\* A comes from an optional key of the Secret d1, which is missing: the
\* reconcile has succeeded and the target holds the reference as written
C20_Witness ==
  /\ AfterSync
  /\ rc[ReconciledKey].err = NoErr
  /\ ~rc[ReconciledKey].requeue
  /\ Len(rc[ReconciledKey].cms.spec.vars) = 2
  /\ rc[ReconciledKey].cms.spec.vars[1].secretValue.set
  /\ ~apiSecrets[Key("d1")].exists
  /\ TextOf(rc[ReconciledKey].cms) = <<"A">> \o Reference
  /\ apiSecrets[TargetKey(rc[ReconciledKey].cms)].exists
  /\ apiSecrets[TargetKey(rc[ReconciledKey].cms)].data[<<"k">>] = <<"A">> \o Reference

\* ------------------------------------------------------------------------
\* Literal variables
\* ------------------------------------------------------------------------

\* the environment the resolver has built when it reaches the entry i of vars
EnvBefore(cms, cl, i) ==
  makeVariables([cms EXCEPT !.spec.vars = SubSeq(@, 1, i - 1)], cl).vars

\* what a reference to name shows under env when nothing is expanded again
Shown(env, name) == IF name \in DOMAIN env THEN env[name] ELSE syntaxWrap(name)

\* the entry i of vars is a literal and no later entry has its name
LastLiteral(cms, i) ==
  /\ cms.spec.vars[i].value # <<>>
  /\ \A j \in DOMAIN cms.spec.vars : j > i => cms.spec.vars[j].name # cms.spec.vars[i].name

\* C21: the literal value of a variable is expanded once, against the
\* environment built so far (the varsFrom bindings and the vars before it): a
\* reference in it to a variable bound before shows that value, a reference to
\* a variable defined later, or nowhere, stays as written; and the template
\* data $(A)$(B) shows the values of A and B side by side, never expanded again.
C21_LiteralOrder ==
  [][\A k \in SourceKeys :
       SyncStep(k) /\ Resolves(rc[k].cms, Cluster) =>
         /\ \A i \in DOMAIN rc[k].cms.spec.vars :
              LastLiteral(rc[k].cms, i) =>
                /\ makeVariables(rc[k].cms, Cluster).vars[rc[k].cms.spec.vars[i].name]
                     = Expand(rc[k].cms.spec.vars[i].value, EnvBefore(rc[k].cms, Cluster, i))
                /\ rc[k].cms.spec.vars[i].value = Reference =>
                     makeVariables(rc[k].cms, Cluster).vars[rc[k].cms.spec.vars[i].name]
                       = Shown(EnvBefore(rc[k].cms, Cluster, i), <<"A">>)
         /\ apiSecrets'[TargetKey(rc[k].cms)].data[<<"k">>]
              = Shown(makeVariables(rc[k].cms, Cluster).vars, <<"A">>)
                  \o Shown(makeVariables(rc[k].cms, Cluster).vars, <<"B">>)]_allVars

\* B is the literal $(A) and A is defined after it: B keeps the reference as
\* written, and the target shows the value of A followed by that reference
C21_Witness ==
  /\ AfterSync
  /\ rc[ReconciledKey].err = NoErr
  /\ rc[ReconciledKey].cms.spec.varsFrom = <<>>
  /\ Len(rc[ReconciledKey].cms.spec.vars) = 2
  /\ rc[ReconciledKey].cms.spec.vars[1].name = <<"B">>
  /\ rc[ReconciledKey].cms.spec.vars[1].value = Reference
  /\ rc[ReconciledKey].cms.spec.vars[2].name = <<"A">>
  /\ rc[ReconciledKey].cms.spec.vars[2].value = <<"x">>
  /\ apiSecrets[TargetKey(rc[ReconciledKey].cms)].data[<<"k">>] = <<"x">> \o Reference

\* ------------------------------------------------------------------------
\* Invalid keys of varsFrom
\* ------------------------------------------------------------------------

\* a variable name: first character [A-Za-z_], the others [A-Za-z0-9_]
NameOK(n) ==
  /\ n # <<>>
  /\ n[1] \in Letters
  /\ \A i \in 2..Len(n) : n[i] \in Letters \cup Digits

\* the keys the varsFrom entry v finds in the cluster cl
EntryKeys(cl, v) ==
  IF v.secretRef.set
    THEN IF cl.secrets[v.secretRef.name].exists
           THEN DOMAIN cl.secrets[v.secretRef.name].data ELSE {}
  ELSE IF cl.configMaps[v.configMapRef.name].exists
    THEN DOMAIN cl.configMaps[v.configMapRef.name].data
           \cup DOMAIN cl.configMaps[v.configMapRef.name].binaryData
  ELSE {}

InvalidOf(cl, v) == {v.prefix \o key : key \in {x \in EntryKeys(cl, v) : ~NameOK(v.prefix \o x)}}

\* the entries of varsFrom with a key that makes no name
WarnedEntries(cms, cl) ==
  {i \in DOMAIN cms.spec.varsFrom : InvalidOf(cl, cms.spec.varsFrom[i]) # {}}

NthOf(S, j) == CHOOSE i \in S : Cardinality({x \in S : x < i}) = j - 1

\* ev is the warning for the entry v: its object, and every invalid prefixed
\* key once, in sorted order
WarnsOf(ev, cl, v) ==
  /\ ev.reason = "InvalidTemplateVariableNames"
  /\ ev.kind = (IF v.secretRef.set THEN "Secret" ELSE "ConfigMap")
  /\ ev.name = (IF v.secretRef.set THEN v.secretRef.name ELSE v.configMapRef.name)
  /\ Len(ev.keys) = Cardinality(InvalidOf(cl, v))
  /\ {ev.keys[i] : i \in DOMAIN ev.keys} = InvalidOf(cl, v)
  /\ \A i, j \in DOMAIN ev.keys : i < j => StrLess(ev.keys[i], ev.keys[j])

\* what the claim C22 says of the result mv of the resolver
KeysAsClaimed(cms, cl, mv) ==
  /\ mv.err = NoErr
  /\ Len(mv.events) = Cardinality(WarnedEntries(cms, cl))
  /\ \A j \in DOMAIN mv.events :
       WarnsOf(mv.events[j], cl, cms.spec.varsFrom[NthOf(WarnedEntries(cms, cl), j)])
  /\ \A i \in DOMAIN cms.spec.varsFrom :
       \A key \in EntryKeys(cl, cms.spec.varsFrom[i]) :
         NameOK(cms.spec.varsFrom[i].prefix \o key)
           <=> cms.spec.varsFrom[i].prefix \o key \in DOMAIN mv.vars

RequiredPresent ==
  \A k \in SourceKeys : apiCMS[k].exists /\ Resolves(apiCMS[k], Cluster)

\* a step of the reconcile of k that changes no object of the cluster
ChangesNothing(k) ==
  /\ SyncStep(k) \/ CleanupStep(k)
  /\ apiSecrets' = apiSecrets
  /\ apiCMS' = apiCMS

\* such a step announces nothing and, unless the reconcile failed or asked
\* for a retry, puts nothing on the queue
EnqueuesNothing(k) ==
  /\ events' = events
  /\ SyncStep(k) => queue' = queue
  /\ CleanupStep(k) /\ rc[k].err = NoErr /\ ~rc[k].requeue => queue' = queue

\* C23 as stated: with no change from outside, the required dependencies
\* present and every call of the API server succeeding, the controller comes
\* to rest: from some point on the queue is empty, no event is in flight and
\* no reconcile runs; and a step of a reconcile that changes nothing
\* enqueues nothing.
C23_NoTightLoop ==
  /\ RequiredPresent => <>[]Quiescent
  /\ [][\A k \in SourceKeys : ChangesNothing(k) => EnqueuesNothing(k)]_allVars

\* C23: the same, where no other object controls the Secret under the name
\* of the target (the reconcile of a source whose target another object
\* controls fails with AlreadyOwnedError every time and is retried).
C23_NoTightLoopUnlessOwned ==
  /\ (RequiredPresent /\ \A k \in SourceKeys : ~OwnedByAnother(k)) => <>[]Quiescent
  /\ [][\A k \in SourceKeys : ChangesNothing(k) => EnqueuesNothing(k)]_allVars

\* at rest after the reconciler wrote the target and the status, whose events
\* it has handled
C23_Witness ==
  /\ Quiescent
  /\ RequiredPresent
  /\ TargetCurrent(ReconciledKey)
  /\ apiSecrets[TargetKey(apiCMS[ReconciledKey])].ownerReferences # <<>>
  /\ apiCMS[ReconciledKey].status.observedGeneration = apiCMS[ReconciledKey].generation
  /\ refMapDsts(owned, Namespace, TargetName(apiCMS[ReconciledKey])) = {apiCMS[ReconciledKey].uid}

\* ------------------------------------------------------------------------
\* Reconcile of a source that is gone
\* ------------------------------------------------------------------------

\* a worker takes the key k off the queue: the start of Reconcile
StartStep(k) == k \in queue /\ k \notin queue'

\* the row of the source k in the index m, and the sources of the dependency d
RowOf(m, k) == refMapDsts(m, k[1], k[2])

ReferrersOf(m, namespace, d) == refMapSrcs(m, namespace, d)

\* C24: Reconcile of a key whose ConfigMapSecret does not exist removes every
\* entry of that source from the secrets and the configMaps index, forward
\* and reverse (so that a later event on a former dependency does not
\* enqueue it), writes nothing to the cluster, leaves the owned map and the
\* rows of every other source as they are, and returns success without
\* requeue.
C24_NotFound ==
  [][\A k \in DOMAIN pc :
       StartStep(k) /\ ~apiCMS[k].exists =>
         /\ RowOf(secrets', k) = {} /\ RowOf(configMaps', k) = {}
         /\ \A d \in SecretNames : k[2] \notin ReferrersOf(secrets', k[1], d)
         /\ \A d \in ConfigMapNames : k[2] \notin ReferrersOf(configMaps', k[1], d)
         /\ UNCHANGED <<apiCMS, apiSecrets, apiConfigMaps, events, owned>>
         /\ \A j \in DOMAIN pc \ {k} :
              /\ RowOf(secrets', j) = RowOf(secrets, j)
              /\ RowOf(configMaps', j) = RowOf(configMaps, j)
         /\ pc'[k] = "idle"
         /\ rc'[k].err = NoErr /\ ~rc'[k].requeue
         /\ queue' = queue \ {k}]_allVars

\* the source s1 is gone and its rows are empty, after a reconcile of s1 had
\* created its target (and recorded the Secret d1 it reads); the rows of s2
\* and the owned map are still there
C24_Witness ==
  /\ ~apiCMS[Key("s1")].exists
  /\ Key("s1") \notin queue /\ pc[Key("s1")] = "idle"
  /\ apiSecrets[Key("s1")].exists
  /\ apiSecrets[Key("s1")].data = (<<"k">> :> <<"v">>)
  /\ getOwner(apiSecrets[Key("s1")].ownerReferences).uid = "u1"
  /\ RowOf(secrets, Key("s1")) = {} /\ RowOf(configMaps, Key("s1")) = {}
  /\ RowOf(secrets, Key("s2")) = {"d1", "t2"}
  /\ RowOf(configMaps, Key("s2")) = {"c1"}
  /\ refMapDsts(owned, Namespace, "s1") = {"u1"}

\* ------------------------------------------------------------------------
\* The index after a reconcile
\* ------------------------------------------------------------------------

\* the names the spec of cms refers to
RefsOf(cms) == varRefs(cms.spec.varsFrom, cms.spec.vars)

\* C25: when Reconcile of a source that exists returns, whatever sync did
\* (success, configuration error, ownership conflict, error of the API
\* server), the row of the source in the secrets index is exactly the set of
\* the Secret names in varsFrom[].secretRef and vars[].secretValue of the
\* spec that reconcile read, and its row in the configMaps index exactly the
\* ConfigMap names in varsFrom[].configMapRef and vars[].configMapValue.
C25_IndexComplete ==
  [][\A k \in SourceKeys :
       CleanupStep(k) =>
         /\ RowOf(secrets', k) = RefsOf(rc[k].cms).secrets
         /\ RowOf(configMaps', k) = RefsOf(rc[k].cms).configMaps
         /\ \A d \in SecretNames :
              k[2] \in ReferrersOf(secrets', k[1], d) <=> d \in RefsOf(rc[k].cms).secrets
         /\ \A d \in ConfigMapNames :
              k[2] \in ReferrersOf(configMaps', k[1], d)
                <=> d \in RefsOf(rc[k].cms).configMaps]_allVars

\* a reconcile of the source with the spec SpecOptional has returned after a
\* failed call of the API server (no target, no status, the key back on the
\* queue), and the index holds d1 and c1 for it
C25_Witness ==
  /\ pc[ReconciledKey] = "idle"
  /\ ReconciledKey \in queue
  /\ changes = 0
  /\ apiCMS[ReconciledKey].spec = SpecOptional
  /\ apiCMS[ReconciledKey].status.conditions = <<>>
  /\ ~apiSecrets[TargetKey(apiCMS[ReconciledKey])].exists
  /\ RowOf(secrets, ReconciledKey) = {"d1"}
  /\ RowOf(configMaps, ReconciledKey) = {"c1"}

\* ------------------------------------------------------------------------
\* When a reconcile writes the index
\* ------------------------------------------------------------------------

RowsChange(k) ==
  \/ RowOf(secrets', k) # RowOf(secrets, k)
  \/ RowOf(configMaps', k) # RowOf(configMaps, k)

\* C26 as stated: within a reconcile of a source that exists, the rows of the
\* source in the index are written at the end of the reconcile, after the
\* dependencies were read and the target Secret and the status were written.
C26_IndexWriteLast ==
  [][\A k \in DOMAIN pc :
       RowsChange(k) /\ apiCMS[k].exists => CleanupStep(k)]_allVars

\* C26: within a reconcile of a source that exists, the rows of the source
\* are written at the start, right after the source is read: the step that
\* takes the key off the queue sets them to the names the spec refers to,
\* before any dependency is read and before the target Secret and the status
\* are written; sync and cleanup leave the index as it is.
C26_IndexWriteFirst ==
  [][\A k \in DOMAIN pc :
       /\ RowsChange(k) => StartStep(k)
       /\ StartStep(k) /\ apiCMS[k].exists =>
            /\ RowOf(secrets', k) = RefsOf(apiCMS[k]).secrets
            /\ RowOf(configMaps', k) = RefsOf(apiCMS[k]).configMaps
            /\ pc'[k] = "sync"
            /\ UNCHANGED <<apiCMS, apiSecrets, events>>
       /\ SyncStep(k) \/ CleanupStep(k) => UNCHANGED <<secrets, configMaps>>]_allVars

\* the reconcile of s1 is about to call sync: the index holds d1 for s1, and
\* neither a target nor a status has been written
C26_Witness ==
  /\ pc[Key("s1")] = "sync"
  /\ RowOf(secrets, Key("s1")) = {"d1"}
  /\ RefsOf(rc[Key("s1")].cms).secrets = {"d1"}
  /\ ~apiSecrets[TargetKey(rc[Key("s1")].cms)].exists
  /\ apiCMS[Key("s1")].exists
  /\ apiCMS[Key("s1")].status.observedGeneration = 0
  /\ apiCMS[Key("s1")].status.conditions = <<>>

\* ------------------------------------------------------------------------
\* The reference index: forward and reverse
\* ------------------------------------------------------------------------

\* C27: after any sequence of set, add and rem, for every namespace, source
\* and destination, the destination is in dsts(namespace, source) exactly if
\* the source is in srcs(namespace, destination); neither map keeps an empty
\* row.
C27_Bidirectional ==
  /\ \A namespace \in RefNamespaces, src \in RefSrcs, dst \in RefDsts :
       dst \in refMapDsts(secrets, namespace, src)
         <=> src \in refMapSrcs(secrets, namespace, dst)
  /\ \A x \in DOMAIN secrets.srcDsts : secrets.srcDsts[x] # {}
  /\ \A x \in DOMAIN secrets.dstSrcs : secrets.dstSrcs[x] # {}

\* s1 of ns refers to d1 alone and s2 of ns to nothing, after edges were
\* added and removed; in ns2 the source s1 refers to both destinations
C27_Witness ==
  /\ refMapDsts(secrets, "ns", "s1") = {"d1"}
  /\ refMapSrcs(secrets, "ns", "d1") = {"s1"}
  /\ <<"ns", "s2">> \notin DOMAIN secrets.srcDsts
  /\ <<"ns", "s1">> \notin DOMAIN secrets.dstSrcs
  /\ refMapDsts(secrets, "ns2", "s1") = RefDsts
  /\ refMapSrcs(secrets, "ns2", "s1") = {"s1"}

\* m2 is m after set(namespace, src, dsts)
SetReplaces(m, m2, namespace, src, dsts) ==
  /\ refMapDsts(m2, namespace, src) = dsts
  /\ dsts = {} => <<namespace, src>> \notin DOMAIN m2.srcDsts
  /\ \A x \in (RefNamespaces \X RefSrcs) \ {<<namespace, src>>} :
       /\ refMapDsts(m2, x[1], x[2]) = refMapDsts(m, x[1], x[2])
       /\ x \in DOMAIN m2.srcDsts <=> x \in DOMAIN m.srcDsts
  /\ \A d \in RefDsts :
       refMapSrcs(m2, namespace, d)
         = IF d \in dsts THEN refMapSrcs(m, namespace, d) \cup {src}
           ELSE refMapSrcs(m, namespace, d) \ {src}
  /\ refMapSet(m2, namespace, src, dsts) = m2

\* C28: set(namespace, src, D) replaces the row: afterwards dsts(namespace,
\* src) is exactly D, a row that became empty is gone, the row of every other
\* source, one of the same name in another namespace included, is as it was,
\* and a second set with the same D changes nothing.
C28_SetReplaces ==
  \A namespace \in RefNamespaces, src \in RefSrcs, dsts \in SUBSET RefDsts :
    SetReplaces(secrets, refMapSet(secrets, namespace, src, dsts), namespace, src, dsts)

\* a map in which a set of s1 of ns to {s1} removes the edge to d1, adds the
\* one to s1, and has the rows of s2 and of s1 of ns2 to keep
C28_Witness ==
  /\ refMapDsts(secrets, "ns", "s1") = {"d1"}
  /\ refMapDsts(secrets, "ns", "s2") = {"d1", "s1"}
  /\ refMapDsts(secrets, "ns2", "s1") = {"d1"}
  /\ refMapDsts(refMapSet(secrets, "ns", "s1", {"s1"}), "ns", "s1") = {"s1"}
  /\ refMapSrcs(refMapSet(secrets, "ns", "s1", {"s1"}), "ns", "d1") = {"s2"}
  /\ refMapDsts(refMapSet(secrets, "ns", "s1", {"s1"}), "ns2", "s1") = {"d1"}

\* ------------------------------------------------------------------------
\* The event handlers
\* ------------------------------------------------------------------------

\* the first event of the kind that is waiting, and its delivery
FirstOf(kind) == MinOf({i \in DOMAIN events : events[i].kind = kind})

Delivered(kind) ==
  /\ \E i \in DOMAIN events : events[i].kind = kind
  /\ events' = RemoveAt(events, FirstOf(kind))

\* the controller references of a list of owner references, in order
ControllersOf(refs) == SelectSeq(refs, LAMBDA ref : ref.controller)

\* the Secret of the event ev has a controller, a ConfigMapSecret of the
\* group secrets.mz.com
HasValidOwner(ev) ==
  /\ ControllersOf(ev.ownerReferences) # <<>>
  /\ ControllersOf(ev.ownerReferences)[1].kind = "ConfigMapSecret"
  /\ ControllersOf(ev.ownerReferences)[1].apiVersion[1] = "secrets.mz.com"

ValidOwner(ev) == ControllersOf(ev.ownerReferences)[1]

\* what the handler of the Secret event ev leaves in the owned map
OwnedAfter(ev) ==
  /\ RowOf(owned', <<ev.namespace, ev.name>>)
       = IF ev.deleted \/ ~HasValidOwner(ev) THEN {} ELSE {ValidOwner(ev).uid}
  /\ \A x \in DOMAIN owned.srcDsts \cup DOMAIN owned'.srcDsts :
       x # <<ev.namespace, ev.name>> => RowOf(owned', x) = RowOf(owned, x)

\* C29: after the handler of a Secret event, the owned entry of the Secret is
\* empty if the event is a delete or the Secret has no controller that is a
\* ConfigMapSecret of the group secrets.mz.com, and otherwise holds the UID
\* of that controller and nothing else; the entry of no other Secret
\* changes, and in every state the entry of a Secret holds at most one UID.
C29_OwnedMap ==
  /\ [](\A x \in DOMAIN owned.srcDsts : Cardinality(owned.srcDsts[x]) <= 1)
  /\ [][Delivered("Secret") => OwnedAfter(events[FirstOf("Secret")])]_allVars

\* every event is handled; the Secret s1 belongs to u1 and t2 to u2, and the
\* entry of ns2 is as it was
C29_Witness ==
  /\ events = <<>>
  /\ RowOf(owned, Key("s1")) = {"u1"}
  /\ RowOf(owned, Key("t2")) = {"u2"}
  /\ RowOf(owned, <<"ns2", "s3">>) = {"u3"}
  /\ getOwner(apiSecrets[Key("t2")].ownerReferences).uid = "u2"
  /\ apiCMS[Key("s1")].exists /\ apiCMS[Key("s1")].spec # SpecRenamed

\* the sources of the namespace whose row in the index m holds d
Referencing(m, namespace, d) ==
  {x[2] : x \in {y \in DOMAIN m.srcDsts : y[1] = namespace /\ d \in m.srcDsts[y]}}

\* the keys a Secret event is to put on the queue
SecretFanIn(ev) ==
  (IF HasValidOwner(ev) THEN {<<ev.namespace, ValidOwner(ev).name>>} ELSE {})
  \cup {<<ev.namespace, n>> : n \in Referencing(secrets, ev.namespace, ev.name)}

\* the handler of the Secret event ev adds each of these keys once
SecretFanInOnce(ev, requests) ==
  /\ BagToSet(requests) = SecretFanIn(ev)
  /\ \A x \in SecretFanIn(ev) : CopiesIn(x, requests) = 1
  /\ queue' = queue \cup SecretFanIn(ev)

\* C30: the handler of an event of the ConfigMap c of a namespace enqueues
\* exactly the sources of that namespace that refer to c; the handler of an
\* event of the Secret s (a delete included) adds to the queue the valid
\* ConfigMapSecret controller of s, if there is one, and every source of the
\* namespace that refers to s, each once, the owner that also refers to s
\* included, and no source of another namespace.
C30_FanIn ==
  [][/\ Delivered("ConfigMap") =>
          queue' = queue \cup {<<events[FirstOf("ConfigMap")].namespace, n>> :
                                n \in Referencing(configMaps,
                                                   events[FirstOf("ConfigMap")].namespace,
                                                   events[FirstOf("ConfigMap")].name)}
     /\ Delivered("Secret") =>
          SecretFanInOnce(events[FirstOf("Secret")],
            secretRequests(getOwner(events[FirstOf("Secret")].ownerReferences),
                           events[FirstOf("Secret")].namespace,
                           refMapSrcs(secrets, events[FirstOf("Secret")].namespace,
                                      events[FirstOf("Secret")].name)))]_allVars

\* an event of the Secret t2 is waiting while s2, its controller, also
\* refers to it and the source s3 of ns2 refers to the t2 of its namespace;
\* s2 is not on the queue
C30_Witness ==
  /\ \E i \in DOMAIN events : events[i].kind = "Secret"
  /\ events[FirstOf("Secret")].name = "t2"
  /\ ~events[FirstOf("Secret")].deleted
  /\ getOwner(events[FirstOf("Secret")].ownerReferences).name = "s2"
  /\ "s2" \in refMapSrcs(secrets, Namespace, "t2")
  /\ "s3" \in refMapSrcs(secrets, "ns2", "t2")
  /\ Key("s2") \notin queue

\* ------------------------------------------------------------------------
\* What Reconcile returns
\* ------------------------------------------------------------------------

\* the cleanup of the reconcile of k had a Secret to delete and the step left
\* it there: its Get or its Delete failed
CleanupFailed(k) ==
  /\ cleanup(rc[k].cms, owned, Cluster.secrets) # {}
  /\ apiSecrets' = apiSecrets

\* C31: Reconcile returns the error of sync whenever sync failed, whether or
\* not cleanup failed as well, and the error of cleanup only when sync
\* returned none; the Requeue flag it returns is that of sync in every case,
\* and the key goes back on the queue exactly on an error or a requeue.
C31_ErrorPreference ==
  [][\A k \in SourceKeys :
       CleanupStep(k) =>
         /\ rc[k].err # NoErr => rc'[k].err = rc[k].err
         /\ rc[k].err = NoErr /\ CleanupFailed(k) => rc'[k].err = CleanupError
         /\ rc[k].err = NoErr /\ ~CleanupFailed(k) => rc'[k].err = NoErr
         /\ rc'[k].requeue = rc[k].requeue
         /\ queue' = IF rc'[k].err # NoErr \/ rc[k].requeue THEN queue \cup {k}
                     ELSE queue]_allVars

\* Reconcile has returned the error of a failed call of sync, and the stale
\* Secret s1 of the renamed source is still there: cleanup failed as well
C31_Witness ==
  /\ pc[ReconciledKey] = "idle"
  /\ rc[ReconciledKey].err = ApiError
  /\ ~rc[ReconciledKey].requeue
  /\ ReconciledKey \in queue
  /\ apiCMS[ReconciledKey].spec = SpecRenamed
  /\ ~apiSecrets[Key("t2")].exists
  /\ cleanup(apiCMS[ReconciledKey], owned, Cluster.secrets) = {"s1"}

\* ------------------------------------------------------------------------
\* Cleanup after every sync
\* ------------------------------------------------------------------------

\* the Secrets cleanup finds to delete in the reconcile of k
StaleOf(k) == cleanup(rc[k].cms, owned, Cluster.secrets)

\* C32: in every reconcile of a source that exists, cleanup runs after sync
\* whatever sync returned - success, a configuration error with requeue, an
\* ownership conflict, a failed write: the reconcile goes from sync to
\* cleanup and returns from nowhere else, and unless a call of cleanup
\* itself fails, every stale Secret the source owns is gone when it returns.
C32_CleanupAlways ==
  [][\A k \in SourceKeys :
       /\ pc[k] = "sync" /\ pc'[k] # "sync" => pc'[k] = "cleanup"
       /\ pc[k] # "idle" /\ pc'[k] = "idle" => pc[k] = "cleanup"
       /\ CleanupStep(k) =>
            \/ \A n \in StaleOf(k) : ~apiSecrets'[Key(n)].exists
            \/ CleanupFailed(k) /\ rc'[k].err # NoErr]_allVars

\* the source was renamed from t2 to s1, a Secret another object controls:
\* the reconcile failed with the ownership error and t2, which the first
\* reconcile had created, is gone
C32_Witness ==
  /\ pc[ReconciledKey] = "idle"
  /\ rc[ReconciledKey].err.kind = "AlreadyOwned"
  /\ apiCMS[ReconciledKey].generation = 2
  /\ apiCMS[ReconciledKey].status.observedGeneration = 1
  /\ HasCond(apiCMS[ReconciledKey].status)
  /\ Cond(apiCMS[ReconciledKey].status).status = ConditionFalse
  /\ TargetName(apiCMS[ReconciledKey]) = "s1"
  /\ ~apiSecrets[Key("t2")].exists
  /\ \A i \in DOMAIN events : events[i].name # "t2"

\* ------------------------------------------------------------------------
\* What cleanup deletes
\* ------------------------------------------------------------------------

\* the Secrets the step deletes
Deleted == {x \in DOMAIN apiSecrets : apiSecrets[x].exists /\ ~apiSecrets'[x].exists}

\* the Secrets of the namespace of cms that the owned map gives to its UID
\* under another name than that of its target
OwnedStale(cms) ==
  {x \in DOMAIN owned.srcDsts :
     x[1] = cms.namespace /\ cms.uid \in owned.srcDsts[x] /\ x[2] # TargetName(cms)}

\* C33: cleanup for a source deletes exactly the Secrets of its namespace
\* that the owned index maps to its UID under another name than that of the
\* current target and that are still there; the Secret of the target name, a
\* Secret mapped to another UID and one of another namespace are left alone,
\* and a stale Secret that is gone already is passed over without error.
C33_CleanupScope ==
  [][\A k \in DOMAIN pc :
       CleanupStep(k) =>
         /\ Deleted = {x \in OwnedStale(rc[k].cms) : apiSecrets[x].exists}
         /\ \A x \in DOMAIN apiSecrets \ Deleted : apiSecrets'[x] = apiSecrets[x]
         /\ rc'[k].err = rc[k].err]_allVars

\* the reconcile of s1 has returned without error: its target s1 is there,
\* the Secret t2 it owned before is deleted (the event of the delete is
\* still to come), and t2 of ns2 is in the owned map as before
C33_Witness ==
  /\ pc[Key("s1")] = "idle"
  /\ rc[Key("s1")].err = NoErr
  /\ Key("s1") \notin queue
  /\ apiCMS[Key("s1")].exists /\ TargetName(apiCMS[Key("s1")]) = "s1"
  /\ apiSecrets[Key("s1")].exists
  /\ ~apiSecrets[Key("t2")].exists
  /\ RowOf(owned, Key("t2")) = {"u1"}
  /\ RowOf(owned, <<"ns2", "t2">>) = {"u1"}
  /\ \E i \in DOMAIN events : events[i].name = "t2" /\ events[i].deleted

\* ------------------------------------------------------------------------
\* The resolver read by read: the cluster changes while makeVariables runs
\* ------------------------------------------------------------------------

\* the Secret d1 under the prefix P and the ConfigMap c1 in varsFrom, then A
\* from the key a of d1 and B from the key B of c1
SpecTwice(optional) ==
  [template |-> [metadata |-> [name |-> "", labels |-> EmptyMap,
                               annotations |-> EmptyMap],
                 data |-> (<<"k">> :> <<"$", "(", "A", ")", "$", "(", "P", "a", ")">>),
                 binaryData |-> EmptyMap],
   varsFrom |-> <<[prefix |-> <<"P">>, secretRef |-> ObjRef("d1", optional),
                   configMapRef |-> NoRef],
                  [prefix |-> <<>>, secretRef |-> NoRef,
                   configMapRef |-> ObjRef("c1", optional)]>>,
   vars |-> <<[name |-> <<"A">>, value |-> <<>>,
               secretValue |-> SecretKey("d1", <<"a">>, optional),
               configMapValue |-> NoSel],
              [name |-> <<"B">>, value |-> <<>>, secretValue |-> NoSel,
               configMapValue |-> SecretKey("c1", <<"B">>, optional)]>>]

InitTwice ==
  /\ \E optional \in BOOLEAN :
       apiCMS = [k \in SourceKeys |-> NewCMS(k[2], "u1", SpecTwice(optional))]
  /\ \E d \in {NilObj} \cup {PlainSecret(x) : x \in DepSecretData} :
       apiSecrets = [k \in {Key(n) : n \in SecretNames} |->
                       IF k[2] \in DepSecretNames THEN d ELSE NilObj]
  /\ \E c \in {NilObj} \cup {[exists |-> TRUE, data |-> x, binaryData |-> EmptyMap] :
                               x \in ConfigMapData} :
       apiConfigMaps = [k \in {Key(n) : n \in ConfigMapNames} |-> c]
  /\ secrets = EmptyRefMap
  /\ configMaps = EmptyRefMap
  /\ owned = EmptyRefMap
  /\ queue = SourceKeys
  /\ events = InitialEvents
  /\ pc = [k \in SourceKeys |-> "idle"]
  /\ rc = [k \in SourceKeys |-> IdleLocals]
  /\ changes = 0
  /\ now = 0

\* the client.Get calls one read through a cache issues: none when the name
\* is in the cache, one otherwise
GetsOf(cache, kind, name) == IF name \in DOMAIN cache THEN <<>> ELSE <<<<kind, name>>>>

\* the client.Get calls of one iteration over cms.Spec.VarsFrom
varsFromGets(st, v) ==
  IF v.secretRef.set THEN GetsOf(st.secrets, "Secret", v.secretRef.name)
  ELSE IF v.configMapRef.set THEN GetsOf(st.configMaps, "ConfigMap", v.configMapRef.name)
  ELSE <<>>

\* the client.Get calls of one iteration over cms.Spec.Vars
varsGets(st, v) ==
  IF v.value # <<>> THEN <<>>
  ELSE IF v.secretValue.set THEN GetsOf(st.secrets, "Secret", v.secretValue.name)
  ELSE IF v.configMapValue.set
    THEN GetsOf(st.configMaps, "ConfigMap", v.configMapValue.name)
  ELSE <<>>

\* the locals of makeVariables in the locals l of a reconcile: the resolver
\* state, the iteration it comes to and the Gets it has issued
ResolverLocals(l) ==
  IF "st" \in DOMAIN l THEN [st |-> l.st, i |-> l.i, gets |-> l.gets]
  ELSE [st |-> ResolverStart, i |-> 1, gets |-> <<>>]

\* makeVariables has returned: an iteration failed or none is left
ResolverDone(l) ==
  \/ ResolverLocals(l).st.err # NoErr
  \/ ResolverLocals(l).i > Len(l.cms.spec.varsFrom) + Len(l.cms.spec.vars)

\* the resolver after its iteration i, which reads the cluster cl
ResolverStepped(cms, cl, r) ==
  IF r.i <= Len(cms.spec.varsFrom)
    THEN [st |-> varsFromStep(r.st, cl, cms.namespace, cms.spec.varsFrom[r.i]),
          i |-> r.i + 1,
          gets |-> r.gets \o varsFromGets(r.st, cms.spec.varsFrom[r.i])]
  ELSE [st |-> varsStep(r.st, cl, cms.namespace,
                        cms.spec.vars[r.i - Len(cms.spec.varsFrom)]),
        i |-> r.i + 1,
        gets |-> r.gets \o varsGets(r.st, cms.spec.vars[r.i - Len(cms.spec.varsFrom)])]

WithResolver(l, r) ==
  [cms |-> l.cms, err |-> l.err, requeue |-> l.requeue,
   st |-> r.st, i |-> r.i, gets |-> r.gets]

\* one iteration of makeVariables, against the cluster as it is by then
ResolveStep(k) ==
  /\ pc[k] = "sync"
  /\ ~ResolverDone(rc[k])
  /\ rc' = [rc EXCEPT ![k] = WithResolver(rc[k], ResolverStepped(rc[k].cms, Cluster,
                                                                ResolverLocals(rc[k])))]
  /\ UNCHANGED <<apiCMS, apiSecrets, apiConfigMaps, secrets, configMaps, owned, queue,
                 events, pc, changes, now>>

\* the rest of sync once makeVariables has returned
ResolveReturn(k) ==
  /\ pc[k] = "sync"
  /\ ResolverDone(rc[k])
  /\ ApplySync(k, rc[k].cms,
               syncRendered(rc[k].cms, Cluster, apiCMS[k] # rc[k].cms, now,
                            renderSecretWith(rc[k].cms,
                                             ResolverResult(ResolverLocals(rc[k]).st))))
  /\ pc' = [pc EXCEPT ![k] = "cleanup"]
  /\ UNCHANGED <<apiConfigMaps, secrets, configMaps, owned, changes, now>>

NextTwice ==
  \/ \E k \in DOMAIN pc : ReconcileStart(k)
  \/ \E k \in DOMAIN pc : ResolveStep(k)
  \/ \E k \in DOMAIN pc : ResolveReturn(k)
  \/ \E k \in DOMAIN pc : ReconcileCleanup(k)
  \/ \E i \in 1..Len(events) : HandleEvent(i)
  \/ DependencyChanges

SpecTwiceRead == InitTwice /\ [][NextTwice]_allVars

\* ------------------------------------------------------------------------
\* One version of each object in a reconcile
\* ------------------------------------------------------------------------

\* the versions a referenced Secret and a referenced ConfigMap can have
SecretVersions == {NilObj} \cup {PlainSecret(x) : x \in DepSecretData}

ConfigMapVersions ==
  {NilObj} \cup {[exists |-> TRUE, data |-> x, binaryData |-> EmptyMap] : x \in ConfigMapData}

\* a cluster that holds the version d of every referenced Secret and the
\* version c of every ConfigMap
ClusterOf(d, c) ==
  [secrets |-> [n \in SecretNames |-> IF n \in DepSecretNames THEN d ELSE NilObj],
   configMaps |-> [n \in ConfigMapNames |-> c]]

NoRepeat(seq) == \A i, j \in DOMAIN seq : seq[i] = seq[j] => i = j

\* the variables of a finished resolver are those of some one version of
\* each object
OneVersion(cms, st) ==
  \E d \in SecretVersions, c \in ConfigMapVersions :
     makeVariables(cms, ClusterOf(d, c)).vars = st.vars

\* C34: within one reconcile each referenced Secret name and each referenced
\* ConfigMap name is fetched from the API at most once, and the variables the
\* resolver ends with are those of one version of each object, whatever
\* happens to the objects while it runs.
C34_OneFetchOneVersion ==
  \A k \in DOMAIN pc :
     pc[k] \in {"sync", "cleanup"} =>
       /\ NoRepeat(ResolverLocals(rc[k]).gets)
       /\ ResolverDone(rc[k]) /\ ResolverLocals(rc[k]).st.err = NoErr
            => OneVersion(rc[k].cms, ResolverLocals(rc[k]).st)

\* ------------------------------------------------------------------------
\* A failing Get, Create or Update of the target
\* ------------------------------------------------------------------------

TargetFaults == {"get", "create", "update"}

\* C35: when the Get of the target Secret fails with another error than
\* not-found, or its Create or its Update fails, sync returns that error and
\* writes no status (the condition and observedGeneration of the source stay
\* as they were), and the target Secret stays as the API server has it.
C35_TargetWriteFailure ==
  [][\A k \in DOMAIN pc, fault \in TargetFaults :
       ReconcileSyncFault(k, fault) =>
         /\ rc'[k].err = ApiError /\ ~rc'[k].requeue
         /\ apiCMS' = apiCMS
         /\ apiSecrets' = apiSecrets
         /\ events' = events /\ queue' = queue]_allVars

\* sync has failed with the API error in the reconcile of the second
\* generation of a source whose references resolve, the target is there, and
\* the status still records the first generation as rendered
C35_Witness ==
  /\ pc[ReconciledKey] = "cleanup"
  /\ rc[ReconciledKey].err = ApiError
  /\ rc[ReconciledKey].cms = apiCMS[ReconciledKey]
  /\ apiCMS[ReconciledKey].generation = 2
  /\ apiCMS[ReconciledKey].spec = SpecOptional
  /\ apiCMS[ReconciledKey].status.observedGeneration = 1
  /\ HasCond(apiCMS[ReconciledKey].status)
  /\ Cond(apiCMS[ReconciledKey].status).status = ConditionFalse
  /\ apiSecrets[Key("s1")].exists
  /\ renderSecret(apiCMS[ReconciledKey], Cluster).err = NoErr
  /\ shouldUpdate(apiSecrets[Key("s1")], renderSecret(apiCMS[ReconciledKey], Cluster).secret)

\* ------------------------------------------------------------------------
\* A source that has left a Secret behind, and others writing Secrets
\* ------------------------------------------------------------------------

\* The controller starts against a cluster where the source s1, whatever its
\* spec is now, has had the target t2: the Secret t2 is there with s1 as its
\* controller.  The Secret d1 is there or not.
InitLeftover ==
  /\ \E sp \in SpecChoices :
       apiCMS = [k \in SourceKeys |-> NewCMS(k[2], "u1", sp)]
  /\ \E d \in {NilObj, PlainSecret(<<"a">> :> <<"v">>)} :
       apiSecrets = [k \in {Key(n) : n \in SecretNames} |->
                       IF k[2] \in DepSecretNames THEN d
                       ELSE IF k[2] = "t2" THEN LeftoverSecret ELSE NilObj]
  /\ apiConfigMaps = [k \in {Key(n) : n \in ConfigMapNames} |->
                        [exists |-> TRUE, data |-> (<<"A">> :> <<"c">>),
                         binaryData |-> EmptyMap]]
  /\ secrets = EmptyRefMap
  /\ configMaps = EmptyRefMap
  /\ owned = EmptyRefMap
  /\ queue = SourceKeys
  /\ events = InitialEvents \o <<SecretEvent("t2", LeftoverSecret, FALSE)>>
  /\ pc = [k \in SourceKeys |-> "idle"]
  /\ rc = [k \in SourceKeys |-> IdleLocals]
  /\ changes = 0
  /\ now = 0

NextLeftover == Controller \/ TargetChanges

SpecLeftover == InitLeftover /\ [][NextLeftover]_allVars

\* C36: whatever the interleaving of reconciles, secret events and changes
\* by others, a Secret the reconciler deletes has, when it is deleted, the
\* source being reconciled as its controller; a Secret whose controller was
\* removed or changed after the owned index recorded it is not deleted.
C36_DeletesOnlyItsOwn ==
  [][\A k \in DOMAIN pc :
       CleanupStep(k) =>
         \A x \in Deleted :
            /\ getOwner(apiSecrets[x].ownerReferences).set
            /\ getOwner(apiSecrets[x].ownerReferences).uid = rc[k].cms.uid]_allVars

\* ------------------------------------------------------------------------
\* Cleanup after a rename
\* ------------------------------------------------------------------------

\* C37: cleanup deletes a Secret the source owned under an earlier name only
\* in a reconcile in which the current target Secret exists, so that a source
\* that has an owned Secret is never left without any because its new target
\* could not be rendered or written.
C37_NoGapOnRename ==
  [][\A k \in DOMAIN pc :
       CleanupStep(k) /\ Deleted # {} =>
         /\ apiSecrets[TargetKey(rc[k].cms)].exists
         /\ apiSecrets'[TargetKey(rc[k].cms)].exists]_allVars

\* ------------------------------------------------------------------------
\* Others delete or modify the target Secret
\* ------------------------------------------------------------------------

TamperFields == {"labels", "annotations", "data", "type"}

\* the Secret obj with one of its fields overwritten by someone else; the
\* owner references stay
Tampered(obj, field) ==
  CASE field = "labels" -> [obj EXCEPT !.labels = ("app" :> "old")]
    [] field = "annotations" -> [obj EXCEPT !.annotations = ("note" :> "old")]
    [] field = "data" -> [obj EXCEPT !.data = (<<"c">> :> <<"x">>)]
    [] field = "type" -> [obj EXCEPT !.type = "kubernetes.io/tls"]

\* someone overwrites a field of a Secret under a target name
ExtModifyTarget(n, field) ==
  /\ changes < MaxChanges
  /\ apiSecrets[Key(n)].exists
  /\ apiSecrets[Key(n)] # Tampered(apiSecrets[Key(n)], field)
  /\ apiSecrets' = [apiSecrets EXCEPT ![Key(n)] = Tampered(@, field)]
  /\ events' = Append(events, SecretEvent(n, Tampered(apiSecrets[Key(n)], field), FALSE))
  /\ changes' = changes + 1
  /\ UNCHANGED <<apiCMS, apiConfigMaps, secrets, configMaps, owned, queue, pc, rc, now>>

\* The target name is free: the only Secret that comes to exist under it is
\* the one the source creates.
InitHeal == InitWith({NilObj})

NextHeal ==
  \/ Controller
  \/ \E n \in TargetNames, field \in TamperFields : ExtModifyTarget(n, field)
  \/ \E n \in TargetNames : ExtDeleteSecret(n)

SpecHeal == InitHeal /\ [][NextHeal]_allVars /\ Fairness

\* the target Secret of k is there with the labels, annotations, data and
\* type renderSecret gives it
TargetRendered(k) ==
  /\ renderSecret(apiCMS[k], Cluster).err = NoErr
  /\ apiSecrets[TargetKey(apiCMS[k])].exists
  /\ ~shouldUpdate(apiSecrets[TargetKey(apiCMS[k])], renderSecret(apiCMS[k], Cluster).secret)
  /\ apiSecrets[TargetKey(apiCMS[k])].data = renderSecret(apiCMS[k], Cluster).secret.data
  /\ apiSecrets[TargetKey(apiCMS[k])].labels = renderSecret(apiCMS[k], Cluster).secret.labels
  /\ apiSecrets[TargetKey(apiCMS[k])].annotations
       = renderSecret(apiCMS[k], Cluster).secret.annotations
  /\ apiSecrets[TargetKey(apiCMS[k])].type = renderSecret(apiCMS[k], Cluster).secret.type

\* C38: when someone other than the controller deletes the target Secret a
\* source owns, or modifies its labels, annotations, data or type, the event
\* of the Secret puts the source on the queue and eventually the Secret is
\* there again with exactly the rendered content.
C38_SelfHealing ==
  /\ \A k \in SourceKeys : (changes > 0) ~> TargetRendered(k)
  /\ [][(Delivered("Secret") /\ HasValidOwner(events[FirstOf("Secret")]))
          => <<events[FirstOf("Secret")].namespace,
               ValidOwner(events[FirstOf("Secret")]).name>> \in queue']_allVars

\* someone has changed or deleted the target, every event is handled and
\* every reconcile done, and the target is as rendered again
C38_Witness ==
  /\ changes > 0
  /\ Quiescent
  /\ TargetRendered(ReconciledKey)
  /\ getOwner(apiSecrets[TargetKey(apiCMS[ReconciledKey])].ownerReferences).uid
       = apiCMS[ReconciledKey].uid

\* ------------------------------------------------------------------------
\* Two sources with the same target name
\* ------------------------------------------------------------------------

\* The sources s1 and s2 both name the target t2, with different templates;
\* the name is free or holds a Secret nobody controls.
InitContend ==
  /\ apiCMS = [k \in PairKeys |->
                 NewCMS(k[2], PairUID[k[2]], IF k[2] = "s1" THEN SpecRenamed ELSE SpecShared)]
  /\ \E t \in {NilObj, UnownedSecret} :
       apiSecrets = [k \in {Key(n) : n \in SecretNames} |->
                       IF k[2] \in DepSecretNames THEN PlainSecret(<<"a">> :> <<"v">>)
                       ELSE IF k[2] = "t2" THEN t ELSE NilObj]
  /\ apiConfigMaps = [k \in {Key(n) : n \in ConfigMapNames} |->
                        [exists |-> TRUE, data |-> (<<"A">> :> <<"c">>),
                         binaryData |-> EmptyMap]]
  /\ secrets = EmptyRefMap
  /\ configMaps = EmptyRefMap
  /\ owned = EmptyRefMap
  /\ queue = PairKeys
  /\ events = InitialEvents
            \o (IF apiSecrets[Key("t2")].exists
                  THEN <<SecretEvent("t2", apiSecrets[Key("t2")], FALSE)>> ELSE <<>>)
  /\ pc = [k \in PairKeys |-> "idle"]
  /\ rc = [k \in PairKeys |-> IdleLocals]
  /\ changes = 0
  /\ now = 0

SpecContend == InitContend /\ [][Controller]_allVars

\* a sync of the source j has written the target and recorded its success
HasWritten(j) ==
  /\ apiCMS[j].exists
  /\ HasCond(apiCMS[j].status)
  /\ Cond(apiCMS[j].status).status = ConditionFalse
  /\ apiSecrets[TargetKey(apiCMS[j])].exists

\* C39: of two sources of a namespace that resolve to the same target name
\* at most one writes the Secret: once a reconcile of one of them has written
\* it, every reconcile of the other fails with the ownership error and leaves
\* the Secret as it is, so that its content never goes from one template to
\* the other.
C39_SingleWriter ==
  [][\A k, j \in DOMAIN pc :
       (/\ k # j
        /\ SyncStep(k)
        /\ HasWritten(j)
        /\ TargetKey(rc[k].cms) = TargetKey(apiCMS[j])
        /\ renderSecret(rc[k].cms, Cluster).err = NoErr)
       => /\ rc'[k].err.kind = "AlreadyOwned"
          /\ apiSecrets' = apiSecrets]_allVars

====
